---------------------------- MODULE Spec2Model ----------------------------
(***************************************************************************)
(* SLR(1) recognizer of the PL/0 subset: src/pl0_parser.py.                *)
(*                                                                         *)
(* The constructor of SLRParser builds the augmented grammar, the          *)
(* canonical collection of LR(0) item sets, FIRST/FOLLOW and the           *)
(* ACTION/GOTO tables; parse() is the shift-reduce driver.  The            *)
(* construction is modelled by operators that compute what the code        *)
(* computes, the driver by a state machine with one step per loop          *)
(* iteration.                                                              *)
(*                                                                         *)
(* Python indices are kept: productions and states are numbered from 0,    *)
(* the cursor ip is 0-based.  A Python list l is a sequence s with         *)
(* l[i] = s[i + 1].                                                        *)
(***************************************************************************)
EXTENDS Integers, Sequences, FiniteSets, TLC

(***************************************************************************)
(* Generic helpers on sequences.                                           *)
(***************************************************************************)
Range(s) == {s[i] : i \in DOMAIN s}

Reverse(s) == [i \in 1..Len(s) |-> s[Len(s) + 1 - i]]

\* s[n:] of Python: the sequence without its first n elements
Drop(s, n) == [i \in 1..(Len(s) - n) |-> s[i + n]]

\* s[:n] of Python
Take(s, n) == [i \in 1..n |-> s[i]]

\* list.index(x): 0-based position of the first element equal to x
Index(s, x) == (CHOOSE i \in 1..Len(s) : s[i] = x /\ \A j \in 1..(i - 1) : s[j] # x) - 1

(***************************************************************************)
(* _build_grammar: the production list G, in source order.                 *)
(***************************************************************************)
P(lhs, rhs) == [lhs |-> lhs, rhs |-> rhs]

BuiltinGrammar ==
  << P("program", <<"block", ".">>),
     P("block", <<"consts", "vars", "procs", "statement">>),
     P("consts", << >>),
     P("consts", <<"CONST", "const_list", ";">>),
     P("const_list", <<"ID", "=", "NUMBER", "const_list_tail">>),
     P("const_list_tail", << >>),
     P("const_list_tail", <<",", "ID", "=", "NUMBER", "const_list_tail">>),
     P("vars", << >>),
     P("vars", <<"VAR", "id_list", ";">>),
     P("id_list", <<"ID", "id_list_tail">>),
     P("id_list_tail", << >>),
     P("id_list_tail", <<",", "ID", "id_list_tail">>),
     P("procs", << >>),
     P("procs", <<"PROCEDURE", "ID", ";", "block", ";", "procs">>),
     P("statement", << >>),
     P("statement", <<"ID", "ASSIGN", "expression">>),
     P("statement", <<"CALL", "ID">>),
     P("statement", <<"BEGIN", "stmt_list", "END">>),
     P("statement", <<"IF", "condition", "THEN", "statement">>),
     P("statement", <<"WHILE", "condition", "DO", "statement">>),
     P("statement", <<"READ", "(", "ID", ")">>),
     P("statement", <<"WRITE", "(", "expression", ")">>),
     P("stmt_list", <<"statement", "stmt_list_tail">>),
     P("stmt_list_tail", << >>),
     P("stmt_list_tail", <<";", "statement", "stmt_list_tail">>),
     P("expression", <<"term", "expression_tail">>),
     P("expression_tail", << >>),
     P("expression_tail", <<"+", "term", "expression_tail">>),
     P("expression_tail", <<"-", "term", "expression_tail">>),
     P("term", <<"factor", "term_tail">>),
     P("term_tail", << >>),
     P("term_tail", <<"*", "factor", "term_tail">>),
     P("term_tail", <<"/", "factor", "term_tail">>),
     P("factor", <<"ID">>),
     P("factor", <<"NUMBER">>),
     P("factor", <<"(", "expression", ")">>),
     P("condition", <<"ODD", "expression">>),
     P("condition", <<"expression", "relop", "expression">>),
     P("relop", <<"=">>),
     P("relop", <<"#">>),
     P("relop", <<"<">>),
     P("relop", <<">">>),
     P("relop", <<"<=">>),
     P("relop", <<">=">>) >>

\* self.start_symbol
start_symbol == "S"

\* the end marker appended by parse() and used by the table builder
EndMarker == "$"

\* the empty marker '' of FIRST sets
Epsilon == ""

(***************************************************************************)
(* Iteration order.  The code iterates over Python sets: symbol sets       *)
(* (_items, line 137; _build_parsing_table, line 274) and item sets        *)
(* (_build_parsing_table, line 248); the order of a set of strings or      *)
(* tuples varies with the interpreter's hash seed.  An order `o` is one    *)
(* of IterOrders: the elements are visited by rank (first appearance in    *)
(* the production list), ascending for "fwd" and descending for "rev".     *)
(***************************************************************************)
IterOrders == {"fwd", "rev"}

\* the elements of s whose index is in idx, in the order of s
Pick(s, idx) ==
  [n \in 1..Cardinality(idx) |->
     s[CHOOSE i \in idx : Cardinality({j \in idx : j <= i}) = n]]

RECURSIVE FlatSymbols(_, _, _)
\* the lhs and rhs symbols of productions lo..hi, in the order written
FlatSymbols(prods, lo, hi) ==
  IF lo > hi THEN << >>
  ELSE IF lo = hi THEN <<prods[lo].lhs>> \o prods[lo].rhs
  ELSE FlatSymbols(prods, lo, (lo + hi) \div 2) \o
       FlatSymbols(prods, (lo + hi) \div 2 + 1, hi)

\* the distinct symbols of the productions by first appearance
SymbolOrder(flat) ==
  Pick(flat, {i \in DOMAIN flat : \A j \in 1..(i - 1) : flat[j] # flat[i]})

RECURSIVE AllItems(_, _, _)
\* every item (lhs, rhs, dot) of productions lo..hi, by production then dot
AllItems(prods, lo, hi) ==
  IF lo > hi THEN << >>
  ELSE IF lo = hi
       THEN [d \in 1..(Len(prods[lo].rhs) + 1) |-> <<prods[lo].lhs, prods[lo].rhs, d - 1>>]
  ELSE AllItems(prods, lo, (lo + hi) \div 2) \o
       AllItems(prods, (lo + hi) \div 2 + 1, hi)

\* list(s) for a set s whose elements are ranked by the list ranked
Iterate(ranked, s, o) ==
  IF o = "fwd" THEN Pick(ranked, {i \in DOMAIN ranked : ranked[i] \in s})
  ELSE Reverse(Pick(ranked, {i \in DOMAIN ranked : ranked[i] \in s}))

(***************************************************************************)
(* _collect_symbols and _augment_grammar.  The parser object `self` is the *)
(* record of the fields set so far; symbols and items are the ranked lists *)
(* that fix how its sets are iterated.                                     *)
(***************************************************************************)
CollectNonterminals(G) == {G[i].lhs : i \in DOMAIN G}

CollectTerminals(G) ==
  {s \in UNION {Range(G[i].rhs) : i \in DOMAIN G} : s \notin CollectNonterminals(G)}

WithProductions(prods, nonterminals, terminals) ==
  [ productions  |-> prods,
    nonterminals |-> nonterminals,
    terminals    |-> terminals,
    symbols      |-> SymbolOrder(FlatSymbols(prods, 1, Len(prods))),
    items        |-> AllItems(prods, 1, Len(prods)) ]

\* _augment_grammar with the end marker in the added production: S -> program $
AugmentGrammar_EndMarker(G) ==
  WithProductions(<<P(start_symbol, <<"program", EndMarker>>)>> \o G,
                  CollectNonterminals(G) \cup {start_symbol},
                  CollectTerminals(G))

AugmentGrammar(G) ==
  WithProductions(<<P(start_symbol, <<"program">>)>> \o G,
                  CollectNonterminals(G) \cup {start_symbol},
                  CollectTerminals(G))

\* self.productions[idx]
Prod(self, idx) == self.productions[idx + 1]

NumProds(self) == Len(self.productions)

\* the symbols of set syms as the list a "for X in syms" visits
IterSymbols(self, syms, o) == Iterate(self.symbols, syms, o)

\* the items of set I as the list a "for (lhs, rhs, dot) in I" visits
IterItems(self, I, o) == Iterate(self.items, I, o)

(***************************************************************************)
(* _closure, _goto, _items: LR(0) item sets.  An item is the tuple         *)
(* <<lhs, rhs, dot>> of the code.                                          *)
(*                                                                         *)
(* A loop of the code is a recursive operator over the range lo..hi of     *)
(* the list it visits, in halves, so that the recursion stays shallow.     *)
(* TLC evaluates an argument when it is first used: the test half = half   *)
(* makes it run the first half of a loop before the second half starts.    *)
(***************************************************************************)
\* one pass of the while loop of _closure: the set new_items
ClosureNewItems(self, closure) ==
  LET after == {it[2][it[3] + 1] : it \in {i \in closure : i[3] < Len(i[2])}}
      Bs    == after \cap self.nonterminals
  IN  {<<self.productions[k].lhs, self.productions[k].rhs, 0>> :
         k \in {j \in DOMAIN self.productions : self.productions[j].lhs \in Bs}} \ closure

\* "while added" left after the first pass
ClosureLoop_OnePass(self, closure, new_items) == closure \cup new_items

RECURSIVE ClosureLoop(_, _, _)
\* "while added", entered with the new_items of the pass just made
ClosureLoop(self, closure, new_items) ==
  IF new_items = {} THEN closure
  ELSE ClosureLoop(self, closure \cup new_items,
                   ClosureNewItems(self, closure \cup new_items))

_closure(self, items) == ClosureLoop(self, items, ClosureNewItems(self, items))

\* _goto returns None when no item has X after its dot; an item set is
\* never empty, so None is modelled by the empty set
NoItemSet == {}

\* _goto that returns the moved items without their closure
_goto_NoClosure(self, state, X) ==
  {<<it[1], it[2], it[3] + 1>> :
     it \in {i \in state : i[3] < Len(i[2]) /\ i[2][i[3] + 1] = X}}

_goto(self, state, X) ==
  LET moved == {<<it[1], it[2], it[3] + 1>> :
                  it \in {i \in state : i[3] < Len(i[2]) /\ i[2][i[3] + 1] = X}}
  IN  IF moved = {} THEN NoItemSet ELSE _closure(self, moved)

\* the symbols after a dot in item set I (syms of _items)
SymsAfterDot(I) == {it[2][it[3] + 1] : it \in {i \in I : i[3] < Len(i[2])}}

\* the empty dict
EmptyDict == [k \in {} |-> 0]

\* dict.get(key) with None modelled by `none`
DictGet(d, key, none) == IF key \in DOMAIN d THEN d[key] ELSE none

\* lines 139-144 with the target taken to be the state appended last
ItemsAdd_LastState(st, I, X, J, C2) ==
  [ C           |-> C2,
    queue       |-> IF J \in Range(st.C) THEN st.queue ELSE Append(st.queue, J),
    transitions |-> (<<Index(C2, I), X>> :> (Len(C2) - 1)) @@ st.transitions ]

\* lines 139-144 for a J that is not None; st = [C, queue, transitions]
ItemsAdd(st, I, X, J, C2) ==
  [ C           |-> C2,
    queue       |-> IF J \in Range(st.C) THEN st.queue ELSE Append(st.queue, J),
    transitions |-> (<<Index(C2, I), X>> :> Index(C2, J)) @@ st.transitions ]

\* the body of "for X in syms" with line 144 inside "if J not in C": the
\* transition to a state found before is not recorded
ItemsForSym_NewOnly(st, I, X, J) ==
  IF J = NoItemSet \/ J \in Range(st.C) THEN st
  ELSE ItemsAdd(st, I, X, J, Append(st.C, J))

\* the body of "for X in syms" of _items for item set I
ItemsForSym(st, I, X, J) ==
  IF J = NoItemSet THEN st
  ELSE ItemsAdd(st, I, X, J, IF J \in Range(st.C) THEN st.C ELSE Append(st.C, J))

RECURSIVE ItemsForSyms(_, _, _, _, _, _)
\* "for X in syms" for the symbols lo..hi of the list syms
ItemsForSyms(self, st, I, syms, lo, hi) ==
  IF lo > hi THEN st
  ELSE IF lo = hi THEN ItemsForSym(st, I, syms[lo], _goto(self, I, syms[lo]))
  ELSE LET half == ItemsForSyms(self, st, I, syms, lo, (lo + hi) \div 2)
       IN  IF half = half
           THEN ItemsForSyms(self, half, I, syms, (lo + hi) \div 2 + 1, hi)
           ELSE half

\* one iteration of "while queue", nothing if the queue is empty
ItemsForState(self, o, st) ==
  IF st.queue = << >> THEN st
  ELSE ItemsForSyms(self, [st EXCEPT !.queue = Tail(st.queue)], Head(st.queue),
                    IterSymbols(self, SymsAfterDot(Head(st.queue)), o),
                    1, Cardinality(SymsAfterDot(Head(st.queue))))

RECURSIVE ItemsRepeat(_, _, _, _)
\* n iterations of "while queue"
ItemsRepeat(self, o, st, n) ==
  IF n <= 1 THEN ItemsForState(self, o, st)
  ELSE LET half == ItemsRepeat(self, o, st, n \div 2)
       IN  IF half = half THEN ItemsRepeat(self, o, half, n - n \div 2) ELSE half

RECURSIVE ItemsWhile(_, _, _, _)
\* "while queue": n iterations, then as many again until the queue is empty
ItemsWhile(self, o, st, n) ==
  IF st.queue = << >> THEN st
  ELSE ItemsWhile(self, o, ItemsRepeat(self, o, st, n), 2 * n)

ItemsStart(I0) == [C |-> <<I0>>, queue |-> <<I0>>, transitions |-> EmptyDict]

\* _items with I0 the start item alone, not its closure
_items_BareStart(self, o) ==
  ItemsWhile(self, o, ItemsStart({<<start_symbol, self.productions[1].rhs, 0>>}), 1)

_items(self, o) ==
  ItemsWhile(self, o,
             ItemsStart(_closure(self, {<<start_symbol, self.productions[1].rhs, 0>>})), 1)

\* _build_canonical_collection: self.states and self.transitions are set
WithCollection(self, cc) ==
  [ productions  |-> self.productions,
    nonterminals |-> self.nonterminals,
    terminals    |-> self.terminals,
    symbols      |-> self.symbols,
    items        |-> self.items,
    states       |-> cc.C,
    transitions  |-> cc.transitions ]

_build_canonical_collection(self, o) == WithCollection(self, _items(self, o))

(***************************************************************************)
(* _compute_first_follow.  FIRST and FOLLOW are dicts from nonterminal to  *)
(* a set of symbols; each "while changed" loop re-scans the productions,   *)
(* updating the sets in place, until a pass changes nothing.               *)
(***************************************************************************)
RECURSIVE FirstOfSequenceFrom(_, _, _, _)
\* first_of_sequence(seq) from position k on (the for loop and its else);
\* the FOLLOW loop repeats the same scan inline for beta
FirstOfSequenceFrom(self, FIRST, seq, k) ==
  IF k > Len(seq) THEN {Epsilon}
  ELSE IF seq[k] \in self.terminals THEN {seq[k]}
  ELSE IF seq[k] \in self.nonterminals
       THEN (FIRST[seq[k]] \ {Epsilon}) \cup
            (IF Epsilon \in FIRST[seq[k]]
             THEN FirstOfSequenceFrom(self, FIRST, seq, k + 1) ELSE {})
       ELSE {seq[k]}

\* first_of_sequence that looks at the first symbol only: a nullable
\* nonterminal at the head of seq hides what follows it
first_of_sequence_HeadOnly(self, FIRST, seq) ==
  IF seq = << >> THEN {Epsilon}
  ELSE IF seq[1] \in self.nonterminals THEN FIRST[seq[1]]
  ELSE {seq[1]}

first_of_sequence(self, FIRST, seq) == FirstOfSequenceFrom(self, FIRST, seq, 1)

\* the body of the FIRST loop for production k (1-based position)
FirstUpdate(self, FIRST, k) ==
  IF self.productions[k].rhs = << >>
  THEN [FIRST EXCEPT ![self.productions[k].lhs] = @ \cup {Epsilon}]
  ELSE [FIRST EXCEPT ![self.productions[k].lhs] =
          @ \cup first_of_sequence(self, FIRST, self.productions[k].rhs)]

RECURSIVE FirstPass(_, _, _, _)
\* "for lhs, rhs in self.productions" of the FIRST loop, productions lo..hi
FirstPass(self, FIRST, lo, hi) ==
  IF lo > hi THEN FIRST
  ELSE IF lo = hi THEN FirstUpdate(self, FIRST, lo)
  ELSE LET half == FirstPass(self, FIRST, lo, (lo + hi) \div 2)
       IN  IF half = half THEN FirstPass(self, half, (lo + hi) \div 2 + 1, hi) ELSE half

\* the FIRST loop left after one pass over the productions
FirstLoop_OnePass(self, before, after) == after

RECURSIVE FirstLoop(_, _, _)
\* "while changed", entered with the sets before and after the pass just made
FirstLoop(self, before, after) ==
  IF after = before THEN after
  ELSE FirstLoop(self, after, FirstPass(self, after, 1, NumProds(self)))

FirstInit(self) == [nt \in self.nonterminals |-> {}]

ComputeFirst(self) ==
  FirstLoop(self, FirstInit(self), FirstPass(self, FirstInit(self), 1, NumProds(self)))

\* lines 206-232 without FOLLOW[B] |= FOLLOW[lhs] for a nullable beta
FollowAdd_NoLhs(FOLLOW, lhs, B, first_beta) ==
  [FOLLOW EXCEPT ![B] = @ \cup (first_beta \ {Epsilon})]

\* lines 206-232 with FOLLOW[lhs] added whether beta is nullable or not
FollowAdd_AlwaysLhs(FOLLOW, lhs, B, first_beta) ==
  [FOLLOW EXCEPT ![B] = @ \cup FOLLOW[lhs] \cup (first_beta \ {Epsilon})]

\* lines 206-232 for a nonterminal B = rhs[i] followed by beta
FollowAdd(FOLLOW, lhs, B, first_beta) ==
  IF Epsilon \in first_beta
  THEN [FOLLOW EXCEPT ![B] = @ \cup FOLLOW[lhs] \cup (first_beta \ {Epsilon})]
  ELSE [FOLLOW EXCEPT ![B] = @ \cup first_beta]

\* the body of "for i, B in enumerate(rhs_list)" for position i (1-based)
\* of production k
FollowUpdate(self, FOLLOW, k, i) ==
  IF self.productions[k].rhs[i] \notin self.nonterminals THEN FOLLOW
  ELSE FollowAdd(FOLLOW, self.productions[k].lhs, self.productions[k].rhs[i],
                 first_of_sequence(self, self.FIRST, Drop(self.productions[k].rhs, i)))

RECURSIVE FollowProd(_, _, _, _)
\* "for i, B in enumerate(rhs_list)" of production k from position i on
FollowProd(self, FOLLOW, k, i) ==
  IF i > Len(self.productions[k].rhs) THEN FOLLOW
  ELSE FollowProd(self, FollowUpdate(self, FOLLOW, k, i), k, i + 1)

RECURSIVE FollowPass(_, _, _, _)
\* "for lhs, rhs in self.productions" of the FOLLOW loop, productions lo..hi
FollowPass(self, FOLLOW, lo, hi) ==
  IF lo > hi THEN FOLLOW
  ELSE IF lo = hi THEN FollowProd(self, FOLLOW, lo, 1)
  ELSE LET half == FollowPass(self, FOLLOW, lo, (lo + hi) \div 2)
       IN  IF half = half THEN FollowPass(self, half, (lo + hi) \div 2 + 1, hi) ELSE half

RECURSIVE FollowLoop(_, _, _)
FollowLoop(self, before, after) ==
  IF after = before THEN after
  ELSE FollowLoop(self, after, FollowPass(self, after, 1, NumProds(self)))

\* lines 198-199 without FOLLOW[start_symbol].add('$')
FollowInit_NoSeed(self) == [nt \in self.nonterminals |-> {}]

FollowInit(self) ==
  [nt \in self.nonterminals |-> IF nt = start_symbol THEN {EndMarker} ELSE {}]

\* the FOLLOW loop; self.FIRST is set
ComputeFollow(self) ==
  FollowLoop(self, FollowInit(self), FollowPass(self, FollowInit(self), 1, NumProds(self)))

WithFirst(self, FIRST) ==
  [ productions  |-> self.productions,
    nonterminals |-> self.nonterminals,
    terminals    |-> self.terminals,
    symbols      |-> self.symbols,
    items        |-> self.items,
    states       |-> self.states,
    transitions  |-> self.transitions,
    FIRST        |-> FIRST ]

WithFollow(self, FOLLOW) ==
  [ productions  |-> self.productions,
    nonterminals |-> self.nonterminals,
    terminals    |-> self.terminals,
    symbols      |-> self.symbols,
    items        |-> self.items,
    states       |-> self.states,
    transitions  |-> self.transitions,
    FIRST        |-> self.FIRST,
    FOLLOW       |-> FOLLOW ]

FollowOf(self) == WithFollow(self, ComputeFollow(self))

_compute_first_follow(self) == FollowOf(WithFirst(self, ComputeFirst(self)))

(***************************************************************************)
(* _build_parsing_table.  An action is the tuple of the code: <<"s", T>>,  *)
(* <<"r", prod_idx>> or <<"acc">>; None is the empty tuple.  A row of      *)
(* ACTION or GOTO is a dict from symbol to entry; a missing GOTO entry is  *)
(* NoState.                                                                *)
(***************************************************************************)
None == << >>

NoState == -1

\* lines 264-269 with the test on the left-hand side only
ProdIndexOf_LhsOnly(self, lhs, rhs) ==
  IF \E idx \in 0..(NumProds(self) - 1) : Prod(self, idx).lhs = lhs
  THEN CHOOSE idx \in 0..(NumProds(self) - 1) :
         /\ Prod(self, idx).lhs = lhs
         /\ \A j \in 0..(idx - 1) : Prod(self, j).lhs # lhs
  ELSE NoState

\* lines 264-269: the index of the first production equal to (lhs, rhs),
\* NoState if the loop ends without a break
ProdIndexOf(self, lhs, rhs) ==
  IF \E idx \in 0..(NumProds(self) - 1) :
       Prod(self, idx).lhs = lhs /\ Prod(self, idx).rhs = rhs
  THEN CHOOSE idx \in 0..(NumProds(self) - 1) :
         /\ Prod(self, idx).lhs = lhs /\ Prod(self, idx).rhs = rhs
         /\ \A j \in 0..(idx - 1) : Prod(self, j).lhs # lhs \/ Prod(self, j).rhs # rhs
  ELSE NoState

\* lines 250-256: an item with symbol a after its dot
ActionShift(self, row, a, to_state) ==
  IF (a \in self.terminals \/ a \notin self.nonterminals) /\ to_state # NoState
  THEN (a :> <<"s", to_state>>) @@ row
  ELSE row

\* lines 270-272: an item of production prod_idx with its dot at the end
ActionReduce(self, row, lhs, prod_idx) ==
  IF prod_idx = NoState THEN row
  ELSE [a \in {b \in self.FOLLOW[lhs] : DictGet(row, b, None) = None} |->
          <<"r", prod_idx>>] @@ row

\* the body of the loop without the accept case of lines 258-260
ActionForItem_NoAccept(self, i, row, it) ==
  IF it[3] < Len(it[2])
  THEN ActionShift(self, row, it[2][it[3] + 1],
                   DictGet(self.transitions, <<i, it[2][it[3] + 1]>>, NoState))
  ELSE ActionReduce(self, row, it[1], ProdIndexOf(self, it[1], it[2]))

\* the body of "for (lhs, rhs, dot) in I" for the item it; row is action[i]
ActionForItem(self, i, row, it) ==
  IF it[3] < Len(it[2])
  THEN ActionShift(self, row, it[2][it[3] + 1],
                   DictGet(self.transitions, <<i, it[2][it[3] + 1]>>, NoState))
  ELSE IF it[1] = start_symbol
       THEN (EndMarker :> <<"acc">>) @@ row
       ELSE ActionReduce(self, row, it[1], ProdIndexOf(self, it[1], it[2]))

RECURSIVE ActionForItems(_, _, _, _, _, _)
\* "for (lhs, rhs, dot) in I" for the items lo..hi of the list its
ActionForItems(self, i, row, its, lo, hi) ==
  IF lo > hi THEN row
  ELSE IF lo = hi THEN ActionForItem(self, i, row, its[lo])
  ELSE LET half == ActionForItems(self, i, row, its, lo, (lo + hi) \div 2)
       IN  IF half = half
           THEN ActionForItems(self, i, half, its, (lo + hi) \div 2 + 1, hi)
           ELSE half

\* action[i] once the loop over the items of state i is done
ActionRow(self, i, o) ==
  ActionForItems(self, i, EmptyDict, IterItems(self, self.states[i + 1], o),
                 1, Cardinality(self.states[i + 1]))

\* lines 274-277 for the nonterminal A
GotoForSym(row, A, to) == IF to # NoState THEN (A :> to) @@ row ELSE row

RECURSIVE GotoForSyms(_, _, _, _, _, _)
\* "for A in self.nonterminals" for the nonterminals lo..hi of the list nts
GotoForSyms(self, i, row, nts, lo, hi) ==
  IF lo > hi THEN row
  ELSE IF lo = hi
       THEN GotoForSym(row, nts[lo], DictGet(self.transitions, <<i, nts[lo]>>, NoState))
  ELSE LET half == GotoForSyms(self, i, row, nts, lo, (lo + hi) \div 2)
       IN  IF half = half
           THEN GotoForSyms(self, i, half, nts, (lo + hi) \div 2 + 1, hi)
           ELSE half

\* goto[i] filled by a loop over self.terminals
GotoRow_OverTerminals(self, i, o) ==
  GotoForSyms(self, i, EmptyDict, IterSymbols(self, self.terminals, o),
              1, Cardinality(self.terminals))

\* goto[i] once "for A in self.nonterminals" is done
GotoRow(self, i, o) ==
  GotoForSyms(self, i, EmptyDict, IterSymbols(self, self.nonterminals, o),
              1, Cardinality(self.nonterminals))

RECURSIVE ActionRows(_, _, _, _)
\* the list action[lo..hi]
ActionRows(self, o, lo, hi) ==
  IF lo > hi THEN << >>
  ELSE IF lo = hi THEN <<ActionRow(self, lo, o)>>
  ELSE ActionRows(self, o, lo, (lo + hi) \div 2) \o
       ActionRows(self, o, (lo + hi) \div 2 + 1, hi)

RECURSIVE GotoRows(_, _, _, _)
\* the list goto[lo..hi]
GotoRows(self, o, lo, hi) ==
  IF lo > hi THEN << >>
  ELSE IF lo = hi THEN <<GotoRow(self, lo, o)>>
  ELSE GotoRows(self, o, lo, (lo + hi) \div 2) \o
       GotoRows(self, o, (lo + hi) \div 2 + 1, hi)

_build_parsing_table(self, o) ==
  [ productions  |-> self.productions,
    nonterminals |-> self.nonterminals,
    terminals    |-> self.terminals,
    symbols      |-> self.symbols,
    items        |-> self.items,
    states       |-> self.states,
    transitions  |-> self.transitions,
    FIRST        |-> self.FIRST,
    FOLLOW       |-> self.FOLLOW,
    action       |-> ActionRows(self, o, 0, Len(self.states) - 1),
    goto         |-> GotoRows(self, o, 0, Len(self.states) - 1) ]

\* SLRParser.__init__: the parser object with everything the driver reads
SLRParser(G, o) ==
  _build_parsing_table(
    _compute_first_follow(_build_canonical_collection(AugmentGrammar(G), o)), o)

\* the parsers built from the built-in grammar, one per iteration order
ParserFwd == SLRParser(BuiltinGrammar, "fwd")

ParserRev == SLRParser(BuiltinGrammar, "rev")

Parser(o) == IF o = "fwd" THEN ParserFwd ELSE ParserRev

(***************************************************************************)
(* Tokens.  A token is the tuple the caller passes: <<sym_type, sym_val>>  *)
(* as Lexer.get_tokens produces it, or <<sym_type, sym_val, line>> when    *)
(* the caller keeps the source line.                                       *)
(***************************************************************************)
\* punctuation and operators: get_tokens gives them the generic kind SYMBOL
Punctuation ==
  {".", ";", ",", "=", "#", "<", ">", "<=", ">=", "+", "-", "*", "/", "(", ")"}

KEYWORDS ==
  {"BEGIN", "CALL", "CONST", "DO", "END", "IF", "ODD",
   "PROCEDURE", "READ", "THEN", "VAR", "WHILE", "WRITE"}

\* the literal text a lexer keeps for a token of kind k
TextOf(k) ==
  CASE k = "ID" -> "x" [] k = "NUMBER" -> "10" [] k = "ASSIGN" -> ":="
    [] k = "BEGIN" -> "begin" [] k = "CALL" -> "call" [] k = "CONST" -> "const"
    [] k = "DO" -> "do" [] k = "END" -> "end" [] k = "IF" -> "if" [] k = "ODD" -> "odd"
    [] k = "PROCEDURE" -> "procedure" [] k = "READ" -> "read" [] k = "THEN" -> "then"
    [] k = "VAR" -> "var" [] k = "WHILE" -> "while" [] k = "WRITE" -> "write"
    [] OTHER -> k

\* the tokens of the lexer's contract
LexerTokens ==
  {<<"SYMBOL", v>> : v \in Punctuation} \cup
  {<<k, TextOf(k)>> : k \in KEYWORDS \cup {"ID", "NUMBER", "ASSIGN"}}

\* tokens outside the contract: the end marker as text or as kind, an
\* unknown kind, a kind that names a nonterminal, a keyword as SYMBOL text
ForeignTokens ==
  {<<"SYMBOL", "$">>, <<"$", "$">>, <<"FOO", "foo">>, <<"program", "program">>,
   <<"SYMBOL", "ID">>}

TokenAlphabet == LexerTokens \cup ForeignTokens

\* the token of terminal t, as the lexer gives it
Tok(t) == IF t \in Punctuation THEN <<"SYMBOL", t>> ELSE <<t, TextOf(t)>>

Toks(ts) == [i \in 1..Len(ts) |-> Tok(ts[i])]

\* the stream with the source line kept as a third field (one token a line)
WithLines(ts) == [i \in 1..Len(ts) |-> <<ts[i][1], ts[i][2], i>>]

(***************************************************************************)
(* The inputs of the model: every stream of at most MaxLen tokens, and the *)
(* programs of SeedPrograms with one token replaced, deleted or inserted,  *)
(* or cut to a prefix.                                                     *)
(***************************************************************************)
MaxLen == 2

SeedPrograms ==
  { Toks(<<"BEGIN", "END", ".">>),
    Toks(<<"VAR", "ID", ";", "BEGIN", "ID", "ASSIGN", "NUMBER", "END", ".">>),
    Toks(<<"BEGIN", "ID", "ASSIGN", "NUMBER", "END", ".">>),
    Toks(<<"IF", "ID", "<", "ID", "THEN", "WRITE", "(", "ID", ")", ".">>),
    Toks(<<"CONST", "ID", "=", "NUMBER", ";", "PROCEDURE", "ID", ";", "CALL", "ID", ";",
           "WHILE", "ODD", "ID", "DO", "READ", "(", "ID", ")", ".">>),
    Toks(<<"ID", "ASSIGN", "(", "ID", "+", "NUMBER", ")", "*", "ID", "-", "NUMBER", ".">>) }

Replaced(ts) ==
  {[ts EXCEPT ![i] = t] : i \in 1..Len(ts), t \in TokenAlphabet}

Deleted(ts) ==
  {Take(ts, i - 1) \o Drop(ts, i) : i \in 1..Len(ts)}

Inserted(ts) ==
  {Take(ts, i) \o <<t>> \o Drop(ts, i) : i \in 0..Len(ts), t \in TokenAlphabet}

Prefixes(ts) == {Take(ts, i) : i \in 0..Len(ts)}

Edited(ts) == Replaced(ts) \cup Deleted(ts) \cup Inserted(ts) \cup Prefixes(ts)

ShortStreams == UNION {[1..n -> TokenAlphabet] : n \in 0..MaxLen}

PairStreams == ShortStreams \cup UNION {Edited(ts) : ts \in SeedPrograms}

\* the token lists a caller may pass: pairs, or the same with lines
TokenStreams == PairStreams \cup {WithLines(ts) : ts \in PairStreams}

(***************************************************************************)
(* The driver: SLRParser(tokens).parse().  There are two invocations       *)
(* (Runs); each has its own parser object (built under ord[r]), its own    *)
(* token list and its own locals terms, stack and ip.                      *)
(*   pc[r]     "idle"  the invocation is never made                        *)
(*             "start" parse() is called, line 290 is next                 *)
(*             "loop"  at the head of the while loop, line 294             *)
(*             "done"  parse() has returned or raised                      *)
(*   result[r] "none" while running; "True" when parse() returned True;    *)
(*             else the class of the exception raised                      *)
(*   error[r]  the content of the SyntaxError message                      *)
(* The rows of self.action and self.goto are defaultdicts (lines 239-240): *)
(* a subscript read of a missing key would insert it.  inserted is the set *)
(* of keys that lookups have added to the rows since the tables were       *)
(* built.  build is the state of the construction while the construction  *)
(* or the table builder is modelled, NoBuild while the driver is.          *)
(***************************************************************************)
VARIABLES tokens, ord, pc, terms, stack, ip, result, error, inserted, build

vars == <<tokens, ord, pc, terms, stack, ip, result, error, inserted, build>>

Runs == {1, 2}

\* line_no = None
NoLine == -1

NoError == [msg |-> "", tok |-> None, line_no |-> NoLine, position |-> NoLine]

\* _token_to_terminal for a token that unpacks into two fields
_token_to_terminal(token) ==
  IF token = None THEN EndMarker
  ELSE IF token[1] = "SYMBOL" THEN token[2] ELSE token[1]

\* "sym_type, sym_val = token" raises ValueError unless the tuple has two fields
Unpacks(token) == token = None \/ Len(token) = 2

\* lines 302-321: the line number found in the token, if any
LineNoOf(tok) ==
  IF tok # None /\ Len(tok) >= 3 THEN tok[3] ELSE NoLine

\* self.action[state].get(a) at the head of the loop
TopState(r) == stack[r][Len(stack[r])]

Lookahead(r) == terms[r][ip[r] + 1]

ActionAt(r) == DictGet(Parser(ord[r]).action[TopState(r) + 1], Lookahead(r), None)

\* terms[ip] and stack[-1] are in range
CanLook(r) == ip[r] < Len(terms[r]) /\ stack[r] # << >>

\* the key read in the ACTION row at line 297, in the GOTO row at line 338
ActionKey(r) == <<ord[r], "action", TopState(r), Lookahead(r)>>

GotoKey(r, state_t, lhs) == <<ord[r], "goto", state_t, lhs>>

\* the row of the built tables that a key names
RowOf(key) ==
  IF key[2] = "action" THEN Parser(key[1]).action[key[3] + 1]
  ELSE Parser(key[1]).goto[key[3] + 1]

\* row[k] in place of row.get(k): a defaultdict inserts the missing key
AfterGet_Subscript(keys, key) ==
  IF key[4] \in DOMAIN RowOf(key) THEN keys ELSE keys \cup {key}

\* row.get(k) leaves the keys of the row as they are
AfterGet(keys, key) == keys

\* the builder's state while no table is being built
NoBuild == [phase |-> "none"]

Raise(r, class, err) ==
  /\ pc' = [pc EXCEPT ![r] = "done"]
  /\ result' = [result EXCEPT ![r] = class]
  /\ error' = [error EXCEPT ![r] = err]

\* lines 290-293 without terms.append('$')
Start_NoEndMarker(r) ==
  /\ pc[r] = "start"
  /\ IF \E i \in 1..Len(tokens[r]) : ~Unpacks(tokens[r][i])
     THEN /\ Raise(r, "ValueError", NoError)
          /\ UNCHANGED <<terms, stack, ip>>
     ELSE /\ terms' = [terms EXCEPT ![r] =
                         [i \in 1..Len(tokens[r]) |-> _token_to_terminal(tokens[r][i])]]
          /\ stack' = [stack EXCEPT ![r] = <<0>>]
          /\ ip' = [ip EXCEPT ![r] = 0]
          /\ pc' = [pc EXCEPT ![r] = "loop"]
          /\ UNCHANGED <<result, error>>
  /\ UNCHANGED <<tokens, ord, inserted, build>>

\* lines 290-293 with "stack = []"
Start_EmptyStack(r) ==
  /\ pc[r] = "start"
  /\ IF \E i \in 1..Len(tokens[r]) : ~Unpacks(tokens[r][i])
     THEN /\ Raise(r, "ValueError", NoError)
          /\ UNCHANGED <<terms, stack, ip>>
     ELSE /\ terms' = [terms EXCEPT ![r] =
                         [i \in 1..Len(tokens[r]) |-> _token_to_terminal(tokens[r][i])]
                         \o <<EndMarker>>]
          /\ stack' = [stack EXCEPT ![r] = << >>]
          /\ ip' = [ip EXCEPT ![r] = 0]
          /\ pc' = [pc EXCEPT ![r] = "loop"]
          /\ UNCHANGED <<result, error>>
  /\ UNCHANGED <<tokens, ord, inserted, build>>

\* lines 290-293
Start(r) ==
  /\ pc[r] = "start"
  /\ IF \E i \in 1..Len(tokens[r]) : ~Unpacks(tokens[r][i])
     THEN /\ Raise(r, "ValueError", NoError)
          /\ UNCHANGED <<terms, stack, ip>>
     ELSE /\ terms' = [terms EXCEPT ![r] =
                         [i \in 1..Len(tokens[r]) |-> _token_to_terminal(tokens[r][i])]
                         \o <<EndMarker>>]
          /\ stack' = [stack EXCEPT ![r] = <<0>>]
          /\ ip' = [ip EXCEPT ![r] = 0]
          /\ pc' = [pc EXCEPT ![r] = "loop"]
          /\ UNCHANGED <<result, error>>
  /\ UNCHANGED <<tokens, ord, inserted, build>>

\* lines 327-329 with the cursor kept in one place for every invocation
Shift_SharedCursor(r) ==
  /\ pc[r] = "loop" /\ CanLook(r)
  /\ ActionAt(r) # None /\ ActionAt(r)[1] = "s"
  /\ stack' = [stack EXCEPT ![r] = Append(@, ActionAt(r)[2])]
  /\ ip' = [q \in Runs |-> ip[r] + 1]
  /\ inserted' = AfterGet(inserted, ActionKey(r))
  /\ UNCHANGED <<tokens, ord, pc, terms, result, error, build>>

\* lines 327-329 without "ip += 1"
Shift_NoAdvance(r) ==
  /\ pc[r] = "loop" /\ CanLook(r)
  /\ ActionAt(r) # None /\ ActionAt(r)[1] = "s"
  /\ stack' = [stack EXCEPT ![r] = Append(@, ActionAt(r)[2])]
  /\ inserted' = AfterGet(inserted, ActionKey(r))
  /\ UNCHANGED <<tokens, ord, pc, terms, ip, result, error, build>>

\* lines 327-329
Shift(r) ==
  /\ pc[r] = "loop" /\ CanLook(r)
  /\ ActionAt(r) # None /\ ActionAt(r)[1] = "s"
  /\ stack' = [stack EXCEPT ![r] = Append(@, ActionAt(r)[2])]
  /\ ip' = [ip EXCEPT ![r] = @ + 1]
  /\ inserted' = AfterGet(inserted, ActionKey(r))
  /\ UNCHANGED <<tokens, ord, pc, terms, result, error, build>>

\* lines 330-341 with one pop too many: "for _ in range(rhs_len + 1)"
Reduce_PopOneMore(r) ==
  /\ pc[r] = "loop" /\ CanLook(r)
  /\ ActionAt(r) # None /\ ActionAt(r)[1] = "r"
  /\ LET self    == Parser(ord[r])
         prod    == Prod(self, ActionAt(r)[2])
         rhs_len == Len(prod.rhs) + 1
     IN  IF rhs_len >= Len(stack[r])
         THEN /\ Raise(r, "IndexError", NoError)
              /\ inserted' = AfterGet(inserted, ActionKey(r))
              /\ UNCHANGED stack
         ELSE LET popped     == Take(stack[r], Len(stack[r]) - rhs_len)
                  state_t    == popped[Len(popped)]
                  goto_state == DictGet(self.goto[state_t + 1], prod.lhs, NoState)
              IN  /\ inserted' = AfterGet(AfterGet(inserted, ActionKey(r)),
                                           GotoKey(r, state_t, prod.lhs))
                  /\ IF goto_state = NoState
                     THEN /\ Raise(r, "SyntaxError",
                                   [NoError EXCEPT !.msg = "Invalid goto after reduction"])
                          /\ stack' = [stack EXCEPT ![r] = popped]
                     ELSE /\ stack' = [stack EXCEPT ![r] = Append(popped, goto_state)]
                          /\ UNCHANGED <<pc, result, error>>
  /\ UNCHANGED <<tokens, ord, terms, ip, build>>

\* lines 330-341 with stack.append(goto_state) inside "if rhs_len > 0"
Reduce_PushInsideIf(r) ==
  /\ pc[r] = "loop" /\ CanLook(r)
  /\ ActionAt(r) # None /\ ActionAt(r)[1] = "r"
  /\ LET self    == Parser(ord[r])
         prod    == Prod(self, ActionAt(r)[2])
         rhs_len == Len(prod.rhs)
     IN  IF rhs_len >= Len(stack[r])
         THEN /\ Raise(r, "IndexError", NoError)
              /\ inserted' = AfterGet(inserted, ActionKey(r))
              /\ UNCHANGED stack
         ELSE LET popped     == Take(stack[r], Len(stack[r]) - rhs_len)
                  state_t    == popped[Len(popped)]
                  goto_state == DictGet(self.goto[state_t + 1], prod.lhs, NoState)
              IN  /\ inserted' = AfterGet(AfterGet(inserted, ActionKey(r)),
                                           GotoKey(r, state_t, prod.lhs))
                  /\ IF goto_state = NoState
                     THEN /\ Raise(r, "SyntaxError",
                                   [NoError EXCEPT !.msg = "Invalid goto after reduction"])
                          /\ stack' = [stack EXCEPT ![r] = popped]
                     ELSE /\ stack' = [stack EXCEPT ![r] =
                                         IF rhs_len > 0 THEN Append(popped, goto_state)
                                         ELSE popped]
                          /\ UNCHANGED <<pc, result, error>>
  /\ UNCHANGED <<tokens, ord, terms, ip, build>>

\* lines 330-341
Reduce(r) ==
  /\ pc[r] = "loop" /\ CanLook(r)
  /\ ActionAt(r) # None /\ ActionAt(r)[1] = "r"
  /\ LET self    == Parser(ord[r])
         prod    == Prod(self, ActionAt(r)[2])
         rhs_len == Len(prod.rhs)
     IN  IF rhs_len >= Len(stack[r])
         THEN \* stack.pop() or stack[-1] on an empty list
              /\ Raise(r, "IndexError", NoError)
              /\ inserted' = AfterGet(inserted, ActionKey(r))
              /\ UNCHANGED stack
         ELSE LET popped     == Take(stack[r], Len(stack[r]) - rhs_len)
                  state_t    == popped[Len(popped)]
                  goto_state == DictGet(self.goto[state_t + 1], prod.lhs, NoState)
              IN  /\ inserted' = AfterGet(AfterGet(inserted, ActionKey(r)),
                                           GotoKey(r, state_t, prod.lhs))
                  /\ IF goto_state = NoState
                     THEN /\ Raise(r, "SyntaxError",
                                   [NoError EXCEPT !.msg = "Invalid goto after reduction"])
                          /\ stack' = [stack EXCEPT ![r] = popped]
                     ELSE /\ stack' = [stack EXCEPT ![r] = Append(popped, goto_state)]
                          /\ UNCHANGED <<pc, result, error>>
  /\ UNCHANGED <<tokens, ord, terms, ip, build>>

\* lines 342-343
Accept(r) ==
  /\ pc[r] = "loop" /\ CanLook(r)
  /\ ActionAt(r) # None /\ ActionAt(r)[1] = "acc"
  /\ pc' = [pc EXCEPT ![r] = "done"]
  /\ result' = [result EXCEPT ![r] = "True"]
  /\ inserted' = AfterGet(inserted, ActionKey(r))
  /\ UNCHANGED <<tokens, ord, terms, stack, ip, error, build>>

\* lines 295-326 with panic-mode recovery: the error is recorded, the
\* offending token is skipped and the loop goes on
Error_SkipToken(r) ==
  /\ pc[r] = "loop"
  /\ IF ~CanLook(r)
     THEN /\ Raise(r, "IndexError", NoError)
          /\ UNCHANGED <<ip, inserted>>
     ELSE IF ActionAt(r) # None
          THEN /\ ActionAt(r)[1] \notin {"s", "r", "acc"}
               /\ Raise(r, "SyntaxError",
                        [NoError EXCEPT !.msg = "Unknown action in parsing table"])
               /\ inserted' = AfterGet(inserted, ActionKey(r))
               /\ UNCHANGED ip
          ELSE /\ inserted' = AfterGet(inserted, ActionKey(r))
               /\ error' = [error EXCEPT ![r] =
                              [msg      |-> "Unexpected token",
                               tok      |-> IF ip[r] < Len(tokens[r])
                                            THEN tokens[r][ip[r] + 1] ELSE None,
                               line_no  |-> NoLine,
                               position |-> ip[r]]]
               /\ ip' = [ip EXCEPT ![r] = @ + 1]
               /\ UNCHANGED <<pc, result>>
  /\ UNCHANGED <<tokens, ord, terms, stack, build>>

\* lines 295-326 and 344-345: every way an iteration raises without a reduce
Error(r) ==
  /\ pc[r] = "loop"
  /\ IF ~CanLook(r)
     THEN /\ Raise(r, "IndexError", NoError)
          /\ UNCHANGED inserted
     ELSE /\ inserted' = AfterGet(inserted, ActionKey(r))
          /\ IF ActionAt(r) # None
             THEN /\ ActionAt(r)[1] \notin {"s", "r", "acc"}
                  /\ Raise(r, "SyntaxError",
                           [NoError EXCEPT !.msg = "Unknown action in parsing table"])
             ELSE LET tok     == IF ip[r] < Len(tokens[r]) THEN tokens[r][ip[r] + 1] ELSE None
                      line_no == LineNoOf(tok)
                  IN  Raise(r, "SyntaxError",
                            [msg      |-> "Unexpected token",
                             tok      |-> tok,
                             line_no  |-> line_no,
                             position |-> IF line_no # NoLine THEN NoLine ELSE ip[r]])
  /\ UNCHANGED <<tokens, ord, terms, stack, ip, build>>

Step(r) == Start(r) \/ Shift(r) \/ Reduce(r) \/ Accept(r) \/ Error(r)

\* the state before the invocations: run 1 is made, run 2 as pc2 says
InitWith(ts1, o1, ts2, o2, pc2) ==
  /\ tokens = (1 :> ts1) @@ (2 :> ts2)
  /\ ord = (1 :> o1) @@ (2 :> o2)
  /\ pc = (1 :> "start") @@ (2 :> pc2)
  /\ terms = [r \in Runs |-> << >>]
  /\ stack = [r \in Runs |-> << >>]
  /\ ip = [r \in Runs |-> 0]
  /\ result = [r \in Runs |-> "none"]
  /\ error = [r \in Runs |-> NoError]
  /\ inserted = {}
  /\ build = NoBuild

(***************************************************************************)
(* Spec: one invocation parse_tokens_with_slr(tokens), for every token     *)
(* list of TokenStreams and either iteration order of the construction.    *)
(***************************************************************************)
Init == \E ts \in TokenStreams, o \in IterOrders : InitWith(ts, o, << >>, o, "idle")

Next == Start(1) \/ Shift(1) \/ Reduce(1) \/ Accept(1) \/ Error(1)

Spec == Init /\ [][Next]_vars

(***************************************************************************)
(* The language of a grammar, computed from the production list alone (no  *)
(* item sets, no tables).  w is a string of terminals; positions are       *)
(* 0-based.  EndsSym(G, w, X, i) is the set of positions j such that X     *)
(* derives w[i:j].  The recursion ends because no nonterminal of G is left *)
(* recursive.                                                              *)
(***************************************************************************)
IsNonterminal(G, X) == \E p \in DOMAIN G : G[p].lhs = X

RECURSIVE EndsSym(_, _, _, _)
RECURSIVE EndsSeq(_, _, _, _, _)
\* the positions where a derivation of rhs[k..] that starts at i can end
EndsSeq(G, w, rhs, k, i) ==
  IF k > Len(rhs) THEN {i}
  ELSE UNION {EndsSeq(G, w, rhs, k + 1, j) : j \in EndsSym(G, w, rhs[k], i)}

EndsSym(G, w, X, i) ==
  IF IsNonterminal(G, X)
  THEN UNION {EndsSeq(G, w, G[p].rhs, 1, i) : p \in {q \in DOMAIN G : G[q].lhs = X}}
  ELSE IF i < Len(w) /\ w[i + 1] = X THEN {i + 1} ELSE {}

\* w is a sentence of G: the lhs of the first production derives it
Derivable(G, w) == Len(w) \in EndsSym(G, w, G[1].lhs, 0)

RECURSIVE PrefixSym(_, _, _, _)
RECURSIVE PrefixSeq(_, _, _, _, _)
\* w[i:] is a prefix of a string that rhs[k..] derives (every symbol of G
\* derives some terminal string, so nothing more is asked once w is used up)
PrefixSeq(G, w, rhs, k, i) ==
  IF i = Len(w) THEN TRUE
  ELSE IF k > Len(rhs) THEN FALSE
  ELSE \/ PrefixSym(G, w, rhs[k], i)
       \/ \E j \in EndsSym(G, w, rhs[k], i) : PrefixSeq(G, w, rhs, k + 1, j)

PrefixSym(G, w, X, i) ==
  IF i = Len(w) THEN TRUE
  ELSE /\ IsNonterminal(G, X)
       /\ \E p \in {q \in DOMAIN G : G[q].lhs = X} : PrefixSeq(G, w, G[p].rhs, 1, i)

\* w is a prefix of a sentence of G
Viable(G, w) == PrefixSym(G, w, G[1].lhs, 0)

(***************************************************************************)
(* Observations on an invocation.                                          *)
(***************************************************************************)
Done(r) == pc[r] = "done"

\* every token is a (sym_type, sym_val) pair
IsPairs(ts) == \A i \in 1..Len(ts) : Len(ts[i]) = 2

\* the terminal string of a token list
TerminalsOf(ts) == [i \in 1..Len(ts) |-> _token_to_terminal(ts[i])]

\* the token list is a sentence of the built-in grammar
InLanguage(ts) == Derivable(BuiltinGrammar, TerminalsOf(ts))

\* the first n tokens are a prefix of a sentence of the built-in grammar
ViablePrefix(ts, n) == Viable(BuiltinGrammar, TerminalsOf(Take(ts, n)))

(***************************************************************************)
(* C1  Completeness.  Every list of (kind, text) tokens that the built-in  *)
(* grammar derives from program -> block '.' is accepted: parse() returns  *)
(* True.                                                                   *)
(***************************************************************************)
C1_Completeness ==
  (Done(1) /\ IsPairs(tokens[1]) /\ InLanguage(tokens[1])) => result[1] = "True"

\* the nested seed program with declarations, a procedure and a loop is accepted
C1_Witness ==
  /\ Done(1) /\ IsPairs(tokens[1]) /\ InLanguage(tokens[1])
  /\ Len(tokens[1]) = 20
  /\ result[1] = "True"

(***************************************************************************)
(* C2  Soundness.  Every list of (kind, text) tokens that the built-in     *)
(* grammar does not derive is rejected: parse() halts with a syntax error  *)
(* and never returns True.                                                 *)
(***************************************************************************)
C2_Soundness ==
  (Done(1) /\ IsPairs(tokens[1]) /\ ~InLanguage(tokens[1])) => result[1] = "SyntaxError"

(***************************************************************************)
(* C3  Error location.  When parse() halts with a syntax error at cursor   *)
(* ip, the reported position is ip, the tokens before ip are a prefix of   *)
(* a sentence and the tokens up to and including ip are not (at the end    *)
(* marker: the whole list is not a sentence).  When only the final '.' is  *)
(* missing, the error is at ip = len(tokens), on the end marker.           *)
(***************************************************************************)
MissingTerminator(ts) == InLanguage(Append(ts, Tok(".")))

C3_ErrorLocation ==
  /\ (Done(1) /\ IsPairs(tokens[1]) /\ result[1] = "SyntaxError") =>
       /\ error[1].msg = "Unexpected token"
       /\ error[1].position = ip[1]
       /\ ViablePrefix(tokens[1], ip[1])
       /\ IF ip[1] < Len(tokens[1])
          THEN /\ error[1].tok = tokens[1][ip[1] + 1]
               /\ ~ViablePrefix(tokens[1], ip[1] + 1)
          ELSE /\ error[1].tok = None
               /\ ~InLanguage(tokens[1])
  /\ (Done(1) /\ IsPairs(tokens[1]) /\ MissingTerminator(tokens[1])) =>
       /\ result[1] = "SyntaxError"
       /\ ip[1] = Len(tokens[1])
       /\ error[1].position = Len(tokens[1])

\* "var x; begin x := 10 end" without the final '.': the error is on the end marker
C3_Witness ==
  /\ Done(1) /\ result[1] = "SyntaxError"
  /\ tokens[1] = Toks(<<"VAR", "ID", ";", "BEGIN", "ID", "ASSIGN", "NUMBER", "END">>)
  /\ ip[1] = 8 /\ error[1].position = 8

(***************************************************************************)
(* SpecLines: the same token list parsed twice, once with the source line  *)
(* kept as a third field of every token and once without.  The two         *)
(* invocations are independent; the second is made when the first is over. *)
(* Either the first or the second is the one with the lines.               *)
(***************************************************************************)
InitLines ==
  \E ts \in PairStreams \ {<< >>}, o \in IterOrders, first \in BOOLEAN :
    IF first THEN InitWith(WithLines(ts), o, ts, o, "start")
    ELSE InitWith(ts, o, WithLines(ts), o, "start")

Second == Done(1) /\ Step(2)

NextTwo == Step(1) \/ Second

SpecLines == InitLines /\ [][NextTwo]_vars

\* the invocation on the tokens with lines, and the one on the pairs
Lined == IF IsPairs(tokens[1]) THEN 2 ELSE 1

Plain == IF IsPairs(tokens[1]) THEN 1 ELSE 2

(***************************************************************************)
(* C4  Error report content.  When ACTION[top][a] is undefined at a token  *)
(* that carries a line number, the syntax error names that token and its   *)
(* line; when the token has no line, the error carries the 0-based cursor  *)
(* position.                                                               *)
(***************************************************************************)
C4_ErrorReport ==
  (/\ Done(1) /\ Done(2)
   /\ result[Plain] = "SyntaxError" /\ error[Plain].msg = "Unexpected token"
   /\ ip[Plain] < Len(tokens[Plain])) =>
     /\ error[Plain].tok = tokens[Plain][ip[Plain] + 1]
     /\ error[Plain].line_no = NoLine
     /\ error[Plain].position = ip[Plain]
     /\ result[Lined] = "SyntaxError"
     /\ error[Lined].tok = tokens[Lined][ip[Plain] + 1]
     /\ error[Lined].line_no = tokens[Lined][ip[Plain] + 1][3]
     /\ error[Lined].position = NoLine

(***************************************************************************)
(* C5  The line field does not affect the verdict.  A token list whose     *)
(* tokens are (kind, text, line) gets the outcome of the same list with    *)
(* the lines removed.                                                      *)
(***************************************************************************)
C5_LineIrrelevant ==
  (Done(1) /\ Done(2)) => result[Lined] = result[Plain]

(***************************************************************************)
(* FairSpec: Spec with the driver's loop running on (an interpreter that   *)
(* is in the loop takes its next iteration).                               *)
(***************************************************************************)
FairSpec == Spec /\ WF_vars(Next)

(***************************************************************************)
(* C6  Termination.  For every finite token list parse() eventually halts: *)
(* the loop is left, for (kind, text) tokens by returning True or by       *)
(* raising SyntaxError.                                                    *)
(***************************************************************************)
C6_Termination ==
  <>(Done(1) /\ (IsPairs(tokens[1]) => result[1] \in {"True", "SyntaxError"}))

\* the parse of "." has halted: five reduces by empty productions and by
\* block without advancing the cursor, one shift, one more reduce, accept
C6_Witness ==
  /\ Done(1) /\ result[1] = "True"
  /\ tokens[1] = Toks(<<".">>)
  /\ ip[1] = 1 /\ Len(stack[1]) = 2

(***************************************************************************)
(* SpecDet: the same list of (kind, text) tokens parsed by two parsers     *)
(* built from the built-in grammar under different iteration orders.       *)
(***************************************************************************)
InitDet ==
  \E ts \in PairStreams, o \in IterOrders :
    InitWith(ts, o, ts, CHOOSE q \in IterOrders : q # o, "start")

SpecDet == InitDet /\ [][NextTwo]_vars

(***************************************************************************)
(* C7  Determinism.  Two parsers built from the built-in grammar under     *)
(* different iteration orders give the same outcome on the same token      *)
(* list: both True, or both the same syntax error at the same cursor.      *)
(***************************************************************************)
C7_Determinism ==
  (Done(1) /\ Done(2)) =>
    /\ result[1] = result[2]
    /\ error[1] = error[2]
    /\ ip[1] = ip[2]

\* both parsers reject "begin x := := 10 end ." at the second ':=' though
\* they number their states differently
C7_Witness ==
  /\ Done(1) /\ Done(2) /\ ord[1] # ord[2]
  /\ tokens[1] = Toks(<<"BEGIN", "ID", "ASSIGN", "ASSIGN", "NUMBER", "END", ".">>)
  /\ result[1] = "SyntaxError" /\ result[2] = "SyntaxError"
  /\ ip[1] = 3 /\ ip[2] = 3
  /\ stack[1] # stack[2]

(***************************************************************************)
(* C8  No error recovery.  An iteration that finds ACTION[top][a]          *)
(* undefined ends the parse with the syntax error for that lookup, without *)
(* a shift or a reduce; once parse() has returned or raised, nothing       *)
(* changes any more.                                                       *)
(***************************************************************************)
C8_NoRecovery ==
  [][ /\ (pc[1] = "loop" /\ CanLook(1) /\ ActionAt(1) = None) =>
           /\ pc'[1] = "done"
           /\ result'[1] = "SyntaxError"
           /\ error'[1].msg = "Unexpected token"
           /\ error'[1].position = ip[1]
           /\ stack' = stack /\ ip' = ip
      /\ Done(1) => UNCHANGED vars ]_vars

\* a parse stopped by an undefined lookup in the middle of the list
C8_Witness ==
  /\ Done(1) /\ result[1] = "SyntaxError" /\ IsPairs(tokens[1])
  /\ 0 < ip[1] /\ ip[1] + 1 < Len(tokens[1])
  /\ error[1].position = ip[1]

(***************************************************************************)
(* C9  The invalid-goto condition is unreachable.  Whenever the driver is  *)
(* about to reduce by A -> gamma, the stack holds more than |gamma| states *)
(* and GOTO[top after the pops][A] is defined; parse() never raises        *)
(* "Invalid goto after reduction".                                         *)
(***************************************************************************)
ReducePending(r) ==
  pc[r] = "loop" /\ CanLook(r) /\ ActionAt(r) # None /\ ActionAt(r)[1] = "r"

\* the production of the pending reduce
ReduceProd(r) == Prod(Parser(ord[r]), ActionAt(r)[2])

C9_GotoDefined ==
  /\ error[1].msg # "Invalid goto after reduction"
  /\ ReducePending(1) =>
       /\ Len(ReduceProd(1).rhs) < Len(stack[1])
       /\ DictGet(Parser(ord[1]).goto[stack[1][Len(stack[1]) - Len(ReduceProd(1).rhs)] + 1],
                  ReduceProd(1).lhs, NoState) # NoState

\* a reduce by statement -> ID ASSIGN expression is pending: three states
\* are popped and GOTO[top][statement] is looked up
C9_Witness ==
  /\ ReducePending(1)
  /\ ReduceProd(1).lhs = "statement" /\ Len(ReduceProd(1).rhs) = 3
  /\ Len(stack[1]) > 4

(***************************************************************************)
(* C10  Outcome domain.  For every list of (sym_type, sym_val) tokens,     *)
(* also with kinds that are no terminal of the grammar and for the empty   *)
(* list, parse_tokens_with_slr returns True or raises SyntaxError.         *)
(***************************************************************************)
C10_OutcomeDomain ==
  (Done(1) /\ IsPairs(tokens[1])) => result[1] \in {"True", "SyntaxError"}

\* a list with a token of unknown kind is rejected with a SyntaxError
C10_Witness ==
  /\ Done(1) /\ IsPairs(tokens[1])
  /\ \E i \in 1..Len(tokens[1]) : tokens[1][i] = <<"FOO", "foo">>
  /\ result[1] = "SyntaxError"

(***************************************************************************)
(* The constructor, step by step.  Grammars other than the built-in one    *)
(* are what a subclass that overrides _build_grammar gives the builder;    *)
(* _augment_grammar names 'program' (line 86), so each starts with         *)
(* program.  ExprGrammar has a shift/reduce conflict, ReduceGrammar a      *)
(* reduce/reduce conflict.                                                 *)
(***************************************************************************)
ExprGrammar ==
  << P("program", <<"E">>),
     P("E", <<"E", "+", "E">>),
     P("E", <<"ID">>) >>

ReduceGrammar ==
  << P("program", <<"A">>),
     P("program", <<"B">>),
     P("A", <<"ID">>),
     P("B", <<"ID">>) >>

\* __init__ up to line 19: everything but the tables
Constructed(G, o) ==
  _compute_first_follow(_build_canonical_collection(AugmentGrammar(G), o))

\* the parser objects of the two other grammars, one per iteration order
OtherParsers ==
  [g \in {"expr", "reduce"} |->
     [o \in IterOrders |->
        Constructed(IF g = "expr" THEN ExprGrammar ELSE ReduceGrammar, o)]]

GrammarNames == {"builtin", "expr", "reduce"}

\* the parser object whose tables are being built; for the built-in
\* grammar it is the object the driver uses
Under(g, o) == IF g = "builtin" THEN Parser(o) ELSE OtherParsers[g][o]

(***************************************************************************)
(* _build_parsing_table as a state machine: build is                       *)
(*   g, o   the grammar and the iteration order                            *)
(*   i      the state of "for i, I in enumerate(self.states)"              *)
(*   k      the number of items of I visited (line 248)                    *)
(*   row    self.action[i]                                                 *)
(*   n      the number of nonterminals visited (line 274)                  *)
(*   grow   self.goto[i]                                                   *)
(* phase is "row" while state i is worked on, "done" after the last state. *)
(***************************************************************************)
Building == build.phase = "row"

BuildSelf == Under(build.g, build.o)

\* list(I) and list(self.nonterminals) as the loops visit them
BuildItems == IterItems(BuildSelf, BuildSelf.states[build.i + 1], build.o)

BuildNonterminals == IterSymbols(BuildSelf, BuildSelf.nonterminals, build.o)

\* the item the loop of line 248 visits next
BuildItem == BuildItems[build.k + 1]

BuildStart(g, o, i) ==
  [phase |-> "row", g |-> g, o |-> o, i |-> i,
   k |-> 0, row |-> EmptyDict, n |-> 0, grow |-> EmptyDict]

\* one iteration of the loop of line 248 on the item BuildItem
BuildVisit ==
  build' = [build EXCEPT !.k = @ + 1,
                         !.row = ActionForItem(BuildSelf, build.i, build.row, BuildItem)]

\* lines 249-255: the item has a symbol after its dot
BuildShift ==
  /\ Building /\ build.k < Len(BuildItems)
  /\ BuildItem[3] < Len(BuildItem[2])
  /\ BuildVisit
  /\ UNCHANGED <<tokens, ord, pc, terms, stack, ip, result, error, inserted>>

\* lines 258-260: the complete item of the augmented production
BuildAccept ==
  /\ Building /\ build.k < Len(BuildItems)
  /\ BuildItem[3] = Len(BuildItem[2]) /\ BuildItem[1] = start_symbol
  /\ BuildVisit
  /\ UNCHANGED <<tokens, ord, pc, terms, stack, ip, result, error, inserted>>

\* lines 261-272: a complete item of another production
BuildReduce ==
  /\ Building /\ build.k < Len(BuildItems)
  /\ BuildItem[3] = Len(BuildItem[2]) /\ BuildItem[1] # start_symbol
  /\ BuildVisit
  /\ UNCHANGED <<tokens, ord, pc, terms, stack, ip, result, error, inserted>>

\* lines 274-277: one iteration of "for A in self.nonterminals"
BuildGoto ==
  /\ Building /\ build.k = Len(BuildItems) /\ build.n < Len(BuildNonterminals)
  /\ build' = [build EXCEPT
                 !.n = @ + 1,
                 !.grow = GotoForSym(@, BuildNonterminals[build.n + 1],
                                     DictGet(BuildSelf.transitions,
                                             <<build.i, BuildNonterminals[build.n + 1]>>,
                                             NoState))]
  /\ UNCHANGED <<tokens, ord, pc, terms, stack, ip, result, error, inserted>>

\* both rows of state i are complete
RowComplete ==
  Building /\ build.k = Len(BuildItems) /\ build.n = Len(BuildNonterminals)

\* line 245: the next state, or the end of the loop
BuildNext ==
  /\ RowComplete
  /\ build' = IF build.i + 1 < Len(BuildSelf.states)
              THEN BuildStart(build.g, build.o, build.i + 1)
              ELSE [build EXCEPT !.phase = "done"]
  /\ UNCHANGED <<tokens, ord, pc, terms, stack, ip, result, error, inserted>>

InitBuild ==
  /\ \E g \in GrammarNames, o \in IterOrders : build = BuildStart(g, o, 0)
  /\ tokens = [r \in Runs |-> << >>]
  /\ ord = [r \in Runs |-> build.o]
  /\ pc = [r \in Runs |-> "idle"]
  /\ terms = [r \in Runs |-> << >>]
  /\ stack = [r \in Runs |-> << >>]
  /\ ip = [r \in Runs |-> 0]
  /\ result = [r \in Runs |-> "none"]
  /\ error = [r \in Runs |-> NoError]
  /\ inserted = {}

NextBuild == BuildShift \/ BuildAccept \/ BuildReduce \/ BuildGoto \/ BuildNext

SpecBuild == InitBuild /\ [][NextBuild]_vars

(***************************************************************************)
(* The closure rule, stated on the productions: an item set c is closed    *)
(* when, for every item of c with its dot before a nonterminal B, every    *)
(* item (B -> gamma, dot 0) is in c.  LeastClosed is the least closed set  *)
(* that contains its argument, found by reachability between nonterminals. *)
(***************************************************************************)
Closed(self, c) ==
  \A it \in c :
    (it[3] < Len(it[2]) /\ it[2][it[3] + 1] \in self.nonterminals) =>
      \A p \in DOMAIN self.productions :
        self.productions[p].lhs = it[2][it[3] + 1] =>
          <<self.productions[p].lhs, self.productions[p].rhs, 0>> \in c

\* the nonterminals that begin a right-hand side of a nonterminal of nts
LeftCorners(self, nts) ==
  {self.productions[p].rhs[1] :
     p \in {q \in DOMAIN self.productions :
              /\ self.productions[q].lhs \in nts
              /\ self.productions[q].rhs # << >>}} \cap self.nonterminals

RECURSIVE LeftReach(_, _)
LeftReach(self, nts) ==
  IF LeftCorners(self, nts) \subseteq nts THEN nts
  ELSE LeftReach(self, nts \cup LeftCorners(self, nts))

LeastClosed(self, its) ==
  its \cup
  {<<self.productions[p].lhs, self.productions[p].rhs, 0>> :
     p \in {q \in DOMAIN self.productions :
              self.productions[q].lhs \in LeftReach(self, SymsAfterDot(its) \cap self.nonterminals)}}

\* the state the builder is working on
BuildState == BuildSelf.states[build.i + 1]

(***************************************************************************)
(* C11  Closure-complete states.  Every state I of the canonical           *)
(* collection satisfies closure(I) = I.                                    *)
(***************************************************************************)
C11_ClosureComplete ==
  Building => _closure(BuildSelf, BuildState) = BuildState

\* a state of the built-in grammar's collection, other than state 0, that
\* holds items the closure added (dot at 0) next to its kernel items
C11_Witness ==
  /\ Building /\ build.g = "builtin" /\ build.i > 0
  /\ \E it \in BuildState : it[3] = 0 /\ it[2] # << >>
  /\ \E it \in BuildState : it[3] > 0
  /\ _closure(BuildSelf, BuildState) = BuildState

(***************************************************************************)
(* C12  FIRST and FOLLOW are fixed points.  One more pass of the FIRST     *)
(* loop and one more pass of the FOLLOW loop over all productions, from    *)
(* the sets the computation returned, change no set.                       *)
(***************************************************************************)
C12_FixedPoints ==
  Building =>
    /\ FirstPass(BuildSelf, BuildSelf.FIRST, 1, NumProds(BuildSelf)) = BuildSelf.FIRST
    /\ FollowPass(BuildSelf, BuildSelf.FOLLOW, 1, NumProds(BuildSelf)) = BuildSelf.FOLLOW

\* the sets of the built-in grammar: FIRST(block) has the empty marker and
\* the statement keywords, FOLLOW(statement) came through three levels
C12_Witness ==
  /\ Building /\ build.g = "builtin" /\ build.i > 0
  /\ {Epsilon, "CONST", "BEGIN", "ID"} \subseteq BuildSelf.FIRST["block"]
  /\ {".", ";", "END"} \subseteq BuildSelf.FOLLOW["statement"]
  /\ FirstPass(BuildSelf, BuildSelf.FIRST, 1, NumProds(BuildSelf)) = BuildSelf.FIRST

(***************************************************************************)
(* C19  closure(items) is the least closed superset of items: it contains  *)
(* items, it is closed under the closure rule, it contains nothing the     *)
(* rule does not force, and closure(closure(items)) = closure(items).      *)
(* The item sets tried are the items of a state visited so far (from the   *)
(* empty set to the whole state) and the single item visited next.         *)
(***************************************************************************)
ClosureIsLeast(self, its) ==
  /\ its \subseteq _closure(self, its)
  /\ Closed(self, _closure(self, its))
  /\ _closure(self, its) = LeastClosed(self, its)
  /\ _closure(self, _closure(self, its)) = _closure(self, its)

C19_ClosureLeast ==
  Building =>
    /\ ClosureIsLeast(BuildSelf, {BuildItems[j] : j \in 1..build.k})
    /\ build.k < Len(BuildItems) => ClosureIsLeast(BuildSelf, {BuildItem})

\* the closure of the single item statement -> IF . condition THEN statement
\* reaches expression, term and factor: three rounds of the while loop
C19_Witness ==
  /\ Building /\ build.g = "builtin" /\ build.k < Len(BuildItems)
  /\ BuildItem[1] = "statement" /\ BuildItem[3] = 1 /\ BuildItem[2][1] = "IF"
  /\ \E it \in _closure(BuildSelf, {BuildItem}) : it[1] = "factor" /\ it[3] = 0
  /\ ClosureIsLeast(BuildSelf, {BuildItem})

(***************************************************************************)
(* C20  The canonical collection is deduplicated and rooted.  State 0 is   *)
(* the closure of the augmented start item with its dot at 0; no two       *)
(* indices hold equal item sets; no state is empty; every state but 0 is   *)
(* the target of a recorded transition from a state numbered lower, hence  *)
(* reachable from state 0.                                                 *)
(***************************************************************************)
C20_Collection ==
  Building =>
    /\ BuildSelf.states[1] =
         _closure(BuildSelf, {<<start_symbol, BuildSelf.productions[1].rhs, 0>>})
    /\ BuildState # {}
    /\ \A j \in 1..Len(BuildSelf.states) :
         BuildSelf.states[j] = BuildState => j = build.i + 1
    /\ build.i > 0 =>
         \E key \in DOMAIN BuildSelf.transitions :
           key[1] < build.i /\ BuildSelf.transitions[key] = build.i
    /\ \A key \in DOMAIN BuildSelf.transitions :
         key[1] = build.i =>
           /\ BuildSelf.transitions[key] \in 0..(Len(BuildSelf.states) - 1)
           /\ BuildSelf.states[BuildSelf.transitions[key] + 1] =
                _goto(BuildSelf, BuildState, key[2])

\* the last state of the built-in grammar's collection: state 94 of 95
C20_Witness ==
  /\ Building /\ build.g = "builtin" /\ build.i = 94
  /\ Len(BuildSelf.states) = 95
  /\ \E key \in DOMAIN BuildSelf.transitions :
       key[1] < 94 /\ BuildSelf.transitions[key] = 94

(***************************************************************************)
(* The SLR(1) definition of the ACTION cell (state I, symbol a), from item *)
(* sets, goto and FOLLOW: the shifts, the reduces and the accept that the  *)
(* items of I call for.                                                    *)
(***************************************************************************)
\* the symbols that label a column of ACTION
Cells(self) == self.terminals \cup {EndMarker}

ShiftCandidates(self, I, a) ==
  IF a \in self.nonterminals \/ _goto(self, I, a) = NoItemSet THEN {}
  ELSE {<<"s", Index(self.states, _goto(self, I, a))>>}

ReduceCandidates(self, I, a) ==
  {<<"r", p - 1>> :
     p \in {q \in DOMAIN self.productions :
              /\ self.productions[q].lhs # start_symbol
              /\ <<self.productions[q].lhs, self.productions[q].rhs,
                   Len(self.productions[q].rhs)>> \in I
              /\ a \in self.FOLLOW[self.productions[q].lhs]}}

\* the complete item of the augmented production is in I
HasAcceptItem(self, I) ==
  <<start_symbol, self.productions[1].rhs, Len(self.productions[1].rhs)>> \in I

Candidates(self, I, a) ==
  ShiftCandidates(self, I, a) \cup ReduceCandidates(self, I, a)
    \cup (IF a = EndMarker /\ HasAcceptItem(self, I) THEN {<<"acc">>} ELSE {})

(***************************************************************************)
(* SpecReuse: parse() called twice on one SLRParser instance, the second   *)
(* call when the first is over.                                            *)
(***************************************************************************)
InitReuse ==
  \E ts \in PairStreams, o \in IterOrders : InitWith(ts, o, ts, o, "start")

SpecReuse == InitReuse /\ [][NextTwo]_vars

\* the outcome of an invocation that is over
Outcome(r) == [result |-> result[r], error |-> error[r], ip |-> ip[r], stack |-> stack[r]]

(***************************************************************************)
(* C13  parse() leaves the instance as it found it.  No lookup adds a key  *)
(* to a row of ACTION or GOTO and no step changes the token list or the    *)
(* iteration order the tables were built under; each call enters its loop  *)
(* with stack [0] and cursor 0; the second call on the same instance ends  *)
(* with the outcome of the first.                                          *)
(***************************************************************************)
C13_ReadOnly ==
  /\ [](inserted = {})
  /\ []((Done(1) /\ Done(2)) => Outcome(1) = Outcome(2))
  /\ [][ /\ tokens' = tokens /\ ord' = ord
         /\ \A r \in Runs :
              (pc[r] = "start" /\ pc'[r] = "loop") => (stack'[r] = <<0>> /\ ip'[r] = 0) ]_vars

\* both calls rejected "begin x := := 10 end ." at the second ':=' after
\* three shifts, with the lookups of both behind them
C13_Witness ==
  /\ Done(1) /\ Done(2) /\ ord[1] = ord[2]
  /\ tokens[1] = Toks(<<"BEGIN", "ID", "ASSIGN", "ASSIGN", "NUMBER", "END", ".">>)
  /\ tokens[2] = tokens[1]
  /\ Outcome(1) = Outcome(2) /\ result[2] = "SyntaxError" /\ ip[2] = 3
  /\ inserted = {}

(***************************************************************************)
(* SpecConc: two invocations of parse() against the same tables, their     *)
(* loop iterations interleaved in any order.                               *)
(***************************************************************************)
ConcStreams ==
  SeedPrograms \cup
  { Toks(<<"BEGIN", "ID", "ASSIGN", "ASSIGN", "NUMBER", "END", ".">>),
    Toks(<<"VAR", "ID", ";", "BEGIN", "ID", "ASSIGN", "NUMBER", "END">>) }

InitConc ==
  \E ts1 \in ConcStreams, ts2 \in ConcStreams, o \in IterOrders :
    InitWith(ts1, o, ts2, o, "start")

NextConc == Step(1) \/ Step(2)

SpecConc == InitConc /\ [][NextConc]_vars

RECURSIVE SoloLoop(_, _, _, _)
\* the loop of lines 294-345 run to its end by one invocation alone, from
\* stack stk and cursor i, for a token list that raises nothing but
\* SyntaxError
SoloLoop(self, trm, stk, i) ==
  LET act == DictGet(self.action[stk[Len(stk)] + 1], trm[i + 1], None)
  IN  IF act = None THEN [result |-> "SyntaxError", ip |-> i, stack |-> stk]
      ELSE IF act[1] = "s" THEN SoloLoop(self, trm, Append(stk, act[2]), i + 1)
      ELSE IF act[1] = "r"
           THEN SoloLoop(self, trm,
                         Append(Take(stk, Len(stk) - Len(Prod(self, act[2]).rhs)),
                                self.goto[stk[Len(stk) - Len(Prod(self, act[2]).rhs)] + 1]
                                         [Prod(self, act[2]).lhs]),
                         i)
           ELSE [result |-> "True", ip |-> i, stack |-> stk]

\* the outcome of parse() on the token list ts when nothing else runs
Solo(ts, o) == SoloLoop(Parser(o), TerminalsOf(ts) \o <<EndMarker>>, <<0>>, 0)

(***************************************************************************)
(* C14  Concurrent parses that share the tables are safe.  However the     *)
(* steps of two invocations interleave, each ends with the result, cursor  *)
(* and stack it has when run alone, and no lookup adds a key to a row of   *)
(* the shared tables.                                                      *)
(***************************************************************************)
C14_Concurrent ==
  /\ inserted = {}
  /\ \A r \in Runs :
       Done(r) =>
         /\ result[r] = Solo(tokens[r], ord[r]).result
         /\ ip[r] = Solo(tokens[r], ord[r]).ip
         /\ stack[r] = Solo(tokens[r], ord[r]).stack

\* one invocation is over, rejected at cursor 3, while the other is in the
\* middle of a longer list that it will accept
C14_Witness ==
  /\ Done(1) /\ result[1] = "SyntaxError" /\ ip[1] = 3
  /\ pc[2] = "loop" /\ ip[2] = 7 /\ Len(tokens[2]) = 20
  /\ Solo(tokens[2], ord[2]).result = "True"
  /\ inserted = {}

(***************************************************************************)
(* C15  Conflict policy: first assigned wins.  Whatever the grammar, once  *)
(* a cell of the ACTION row has an action, no later step of the loop over  *)
(* the items of the state replaces it.                                     *)
(***************************************************************************)
C15_FirstWins ==
  [][ (Building /\ build'.phase = "row" /\ build'.i = build.i) =>
        \A a \in DOMAIN build.row :
          a \in DOMAIN build'.row /\ build'.row[a] = build.row[a] ]_vars

(***************************************************************************)
(* C16  The built-in grammar is SLR(1) conflict-free: no state and symbol  *)
(* have two different candidate actions (no shift with a reduce, no two    *)
(* reduces, no accept with a reduce).                                      *)
(***************************************************************************)
C16_ConflictFree ==
  (Building /\ build.g = "builtin") =>
    \A a \in Cells(BuildSelf) : Cardinality(Candidates(BuildSelf, BuildState, a)) <= 1

\* a state of the built-in grammar that calls for a shift on one terminal
\* and for a reduce on another
C16_Witness ==
  /\ Building /\ build.g = "builtin" /\ build.i > 0
  /\ \E a \in Cells(BuildSelf) : ShiftCandidates(BuildSelf, BuildState, a) # {}
  /\ \E a \in Cells(BuildSelf) : ReduceCandidates(BuildSelf, BuildState, a) # {}
  /\ \A a \in Cells(BuildSelf) : Cardinality(Candidates(BuildSelf, BuildState, a)) <= 1

(***************************************************************************)
(* C17  ACTION is the SLR(1) table of the built-in grammar: when the row   *)
(* of a state is complete, each cell holds the candidate action of its     *)
(* state and symbol (shift to the index of goto(I, a); reduce by p for a   *)
(* in FOLLOW of the left-hand side of the complete item of p) and every    *)
(* cell without a candidate is undefined; the row is the one the driver    *)
(* reads.                                                                  *)
(***************************************************************************)
C17_ActionIsSLR ==
  (RowComplete /\ build.g = "builtin") =>
    /\ DOMAIN build.row \subseteq Cells(BuildSelf)
    /\ \A a \in Cells(BuildSelf) :
         IF Candidates(BuildSelf, BuildState, a) = {} THEN a \notin DOMAIN build.row
         ELSE a \in DOMAIN build.row /\ Candidates(BuildSelf, BuildState, a) = {build.row[a]}
    /\ build.row = Parser(build.o).action[build.i + 1]
    /\ build.grow = Parser(build.o).goto[build.i + 1]

\* a complete row of the built-in grammar with a shift and a reduce in it
C17_Witness ==
  /\ RowComplete /\ build.g = "builtin"
  /\ \E a \in DOMAIN build.row : build.row[a][1] = "s"
  /\ \E a \in DOMAIN build.row : build.row[a][1] = "r" /\ build.row[a][2] > 1

(***************************************************************************)
(* C18  Accept entry.  A cell of a complete row is accept if and only if   *)
(* its symbol is the end marker and its state holds the complete item of   *)
(* the augmented production; no reduce entry refers to production 0.       *)
(***************************************************************************)
C18_AcceptEntry ==
  RowComplete =>
    /\ \A a \in DOMAIN build.row :
         build.row[a] = <<"acc">> <=> (a = EndMarker /\ HasAcceptItem(BuildSelf, BuildState))
    /\ HasAcceptItem(BuildSelf, BuildState) => EndMarker \in DOMAIN build.row
    /\ \A a \in DOMAIN build.row : build.row[a][1] = "r" => build.row[a][2] # 0

\* the complete row of the state of the built-in grammar that holds
\* S -> program . : accept on the end marker and nothing else
C18_Witness ==
  /\ RowComplete /\ build.g = "builtin"
  /\ HasAcceptItem(BuildSelf, BuildState)
  /\ build.row = (EndMarker :> <<"acc">>)

(***************************************************************************)
(* C25 as stated.  Stack depth is bounded by the input length: at every    *)
(* step of a parse of n tokens the parse stack holds at most n + 1 states. *)
(***************************************************************************)
C25_StackBound ==
  pc[1] \in {"loop", "done"} => Len(stack[1]) <= Len(tokens[1]) + 1

(***************************************************************************)
(* C25 amended.  At every step of a parse of n tokens the parse stack      *)
(* holds at most 2n + 5 states: with ip tokens shifted it holds at most    *)
(* 2 * ip + 5 (the initial state, four states pushed by reduces of empty   *)
(* productions, and two for each token shifted), and ip <= n.              *)
(***************************************************************************)
C25_StackLinear ==
  pc[1] \in {"loop", "done"} =>
    /\ Len(stack[1]) <= 2 * ip[1] + 5
    /\ Len(stack[1]) <= 2 * Len(tokens[1]) + 5

\* the bound is met after two tokens were shifted: nine states
C25_Witness ==
  /\ pc[1] = "loop" /\ ip[1] = 2
  /\ Len(stack[1]) = 2 * ip[1] + 5

(***************************************************************************)
(* C26  Effect of one step.  A reduce by A -> gamma pops exactly |gamma|   *)
(* states (none for an empty right-hand side) and pushes exactly the one   *)
(* state GOTO[new top][A], so the stack length changes by 1 - |gamma|, and *)
(* leaves the cursor where it is.  A shift pushes exactly one state, the   *)
(* target of the shift entry, and advances the cursor by one.  No other    *)
(* step of the loop changes the stack or the cursor.                       *)
(***************************************************************************)
C26_StepEffect ==
  [][pc[1] = "loop" =>
       IF ReducePending(1)
       THEN LET gamma == ReduceProd(1).rhs
                kept  == Take(stack[1], Len(stack[1]) - Len(gamma))
                to    == DictGet(Parser(ord[1]).goto[kept[Len(kept)] + 1],
                                 ReduceProd(1).lhs, NoState)
            IN  /\ Len(gamma) < Len(stack[1])
                /\ to # NoState
                /\ stack'[1] = Append(kept, to)
                /\ Len(stack'[1]) = Len(stack[1]) + 1 - Len(gamma)
                /\ ip'[1] = ip[1]
       ELSE IF CanLook(1) /\ ActionAt(1) # None /\ ActionAt(1)[1] = "s"
            THEN /\ stack'[1] = Append(stack[1], ActionAt(1)[2])
                 /\ ip'[1] = ip[1] + 1
            ELSE /\ stack'[1] = stack[1]
                 /\ ip'[1] = ip[1]]_vars

\* a reduce by an empty production is pending after reduces by longer
\* productions have left fewer states on the stack than tokens were shifted
C26_Witness ==
  /\ ReducePending(1) /\ ReduceProd(1).rhs = << >>
  /\ ip[1] >= 2 /\ Len(stack[1]) <= ip[1]

(***************************************************************************)
(* C27  Stack well-formedness.  Once parse() has created its stack (the    *)
(* loop is entered; a token that does not unpack raises before that), the  *)
(* stack is never empty, its bottom element is state 0 and every element   *)
(* is an index into self.states.                                           *)
(***************************************************************************)
C27_StackWellFormed ==
  (pc[1] = "loop" \/ (Done(1) /\ result[1] # "ValueError")) =>
    /\ stack[1] # << >>
    /\ stack[1][1] = 0
    /\ \A k \in 1..Len(stack[1]) :
         stack[1][k] \in 0..(Len(Parser(ord[1]).states) - 1)

\* after at least three shifts the reduces have popped the stack back to
\* the initial state and the one state pushed over it
C27_Witness ==
  /\ pc[1] = "loop" /\ ip[1] >= 3
  /\ Len(stack[1]) = 2 /\ stack[1][1] = 0

(***************************************************************************)
(* C28  Cursor bound.  While parse() runs and after it, 0 <= ip <=         *)
(* len(tokens), so terms[ip] is in range (terms is the token list plus the *)
(* end marker); no ACTION entry on the end marker is a shift, so the       *)
(* cursor never moves past the appended end marker.                        *)
(***************************************************************************)
C28_CursorBound ==
  (pc[1] = "loop" \/ (Done(1) /\ result[1] # "ValueError")) =>
    /\ 0 <= ip[1] /\ ip[1] <= Len(tokens[1])
    /\ ip[1] < Len(terms[1])
    /\ result[1] # "IndexError"
    /\ \A i \in DOMAIN Parser(ord[1]).action :
         EndMarker \in DOMAIN Parser(ord[1]).action[i] =>
           Parser(ord[1]).action[i][EndMarker][1] # "s"

\* every token of a list of at least three has been shifted: the cursor is
\* on the appended end marker and the loop is still running
C28_Witness ==
  /\ pc[1] = "loop" /\ Len(tokens[1]) >= 3
  /\ ip[1] = Len(tokens[1]) /\ Lookahead(1) = EndMarker

(***************************************************************************)
(* C29  Acceptance consumes the whole input.  For every list of (kind,     *)
(* text) tokens, whatever the kind strings, parse() returns True only with *)
(* the cursor on the appended end marker: ip = len(tokens), every token    *)
(* of the list shifted.                                                    *)
(***************************************************************************)
C29_AcceptAtEnd ==
  (Done(1) /\ IsPairs(tokens[1]) /\ result[1] = "True") => ip[1] = Len(tokens[1])

(***************************************************************************)
(* The LR(0) automaton: the edges recorded in self.transitions, as the     *)
(* pairs (i, j) of state indices with the symbols X such that              *)
(* transitions[(i, X)] == j, under either iteration order.                 *)
(***************************************************************************)
Edges ==
  [o \in IterOrders |->
     LET T == Parser(o).transitions
     IN  [e \in {<<key[1], T[key]>> : key \in DOMAIN T} |->
            {key[2] : key \in {q \in DOMAIN T : q[1] = e[1] /\ T[q] = e[2]}}]]

\* the number of adjacent stack entries joined by an edge with a terminal label
TerminalEdges(r) ==
  Cardinality({k \in 1..(Len(stack[r]) - 1) :
                 DictGet(Edges[ord[r]], <<stack[r][k], stack[r][k + 1]>>, {})
                   \cap Parser(ord[r]).terminals # {}})

(***************************************************************************)
(* C30 as stated.  The stack is a path of the LR(0) automaton: adjacent    *)
(* entries are joined by a transition, and the number of terminal-labelled *)
(* edges of the path equals the cursor.                                    *)
(***************************************************************************)
C30_PathCountsCursor ==
  pc[1] = "loop" =>
    /\ \A k \in 1..(Len(stack[1]) - 1) :
         <<stack[1][k], stack[1][k + 1]>> \in DOMAIN Edges[ord[1]]
    /\ TerminalEdges(1) = ip[1]

(***************************************************************************)
(* C30 amended.  The stack is a path of the LR(0) automaton: adjacent      *)
(* entries are joined by a transition, and the number of terminal-labelled *)
(* edges of the path is at most the cursor (a reduce replaces the edges of *)
(* the tokens it covers by one nonterminal-labelled edge).                 *)
(***************************************************************************)
C30_StackIsPath ==
  pc[1] = "loop" =>
    /\ \A k \in 1..(Len(stack[1]) - 1) :
         <<stack[1][k], stack[1][k + 1]>> \in DOMAIN Edges[ord[1]]
    /\ TerminalEdges(1) <= ip[1]

\* a path with at least two terminal-labelled edges left after reduces have
\* replaced the edges of other shifted tokens
C30_Witness ==
  /\ pc[1] = "loop" /\ Len(stack[1]) >= 5
  /\ TerminalEdges(1) >= 2 /\ TerminalEdges(1) < ip[1]

(***************************************************************************)
(* C21  The transition map is the goto function.  For state i and every    *)
(* grammar symbol X, transitions[(i, X)] is defined if and only if some    *)
(* item of state i has X right after its dot, and then it is the index j   *)
(* with states[j] = goto(states[i], X), for a state j found before the     *)
(* transition as for one found by it.  When the GOTO row of state i is     *)
(* complete, GOTO[i][A] is defined for a nonterminal A exactly when        *)
(* transitions[(i, A)] is, with the same value.                            *)
(***************************************************************************)
C21_TransitionsAreGoto ==
  Building =>
    /\ \A X \in BuildSelf.terminals \cup BuildSelf.nonterminals :
         /\ <<build.i, X>> \in DOMAIN BuildSelf.transitions
              <=> \E it \in BuildState : it[3] < Len(it[2]) /\ it[2][it[3] + 1] = X
         /\ <<build.i, X>> \in DOMAIN BuildSelf.transitions =>
              /\ BuildSelf.transitions[<<build.i, X>>] \in 0..(Len(BuildSelf.states) - 1)
              /\ BuildSelf.states[BuildSelf.transitions[<<build.i, X>>] + 1]
                   = _goto(BuildSelf, BuildState, X)
    /\ \A key \in DOMAIN BuildSelf.transitions :
         key[2] \in BuildSelf.terminals \cup BuildSelf.nonterminals
    /\ RowComplete =>
         /\ DOMAIN build.grow =
              {A \in BuildSelf.nonterminals : <<build.i, A>> \in DOMAIN BuildSelf.transitions}
         /\ \A A \in DOMAIN build.grow : build.grow[A] = BuildSelf.transitions[<<build.i, A>>]

\* the rows of a state of the built-in grammar are complete; the state has
\* a transition to a state found before it and one on a nonterminal
C21_Witness ==
  /\ RowComplete /\ build.g = "builtin"
  /\ \E key \in DOMAIN BuildSelf.transitions :
       key[1] = build.i /\ BuildSelf.transitions[key] < build.i
  /\ build.grow # EmptyDict

(***************************************************************************)
(* The construction as a state machine: the loops of _closure, _items and  *)
(* _compute_first_follow for the built-in grammar, one step per iteration. *)
(* build is                                                                *)
(*   o        the iteration order of the symbol sets (line 137)            *)
(*   closure  the set of the running _closure call (line 94)               *)
(*   st       C, queue and transitions of _items                           *)
(*   I, syms  the item set popped from the queue (NoItemSet while the      *)
(*            start item is closed) and the symbols of "for X in syms"     *)
(*            not visited yet                                              *)
(*   FIRST, FOLLOW  the dicts of _compute_first_follow                     *)
(*   k, i     the number of productions visited in the running pass of     *)
(*            the FIRST or FOLLOW loop, and of positions of rhs_list       *)
(*            visited in the production at hand (line 205)                 *)
(*   changed  the flag of the running "while changed" loop                 *)
(*   visit    the order in which a pass visits the productions: "list" is  *)
(*            the order of the code (self.productions is a list, lines     *)
(*            185 and 203); "reversed" and "alternate" (the list order     *)
(*            and its reverse in turn, flip telling which) are the other   *)
(*            orders an implementation may pick                            *)
(* phase is "closure", "items", "first", "follow", then "built".  The      *)
(* fields of Parser(build.o) that the loops read (productions,             *)
(* nonterminals, terminals, the ranked symbols) are set before the         *)
(* construction starts.                                                    *)
(***************************************************************************)
\* one iteration of "while added" of _closure (lines 96-110); after the
\* last one the closure is returned to _items: I0 at lines 127-130, J at
\* lines 138-144
ClosurePass ==
  /\ build.phase = "closure"
  /\ LET new_items == ClosureNewItems(Parser(build.o), build.closure)
     IN  IF new_items # {}
         THEN build' = [build EXCEPT !.closure = @ \cup new_items]
         ELSE IF build.I = NoItemSet
         THEN build' = [build EXCEPT !.phase = "items", !.closure = {},
                                     !.st = ItemsStart(build.closure)]
         ELSE \E C2 \in {IF build.closure \in Range(build.st.C) THEN build.st.C
                         ELSE Append(build.st.C, build.closure)} :
                build' = [build EXCEPT !.phase = "items", !.closure = {},
                                       !.st = ItemsAdd(build.st, build.I, Head(build.syms),
                                                       build.closure, C2),
                                       !.syms = Tail(@)]
  /\ UNCHANGED <<tokens, ord, pc, terms, stack, ip, result, error, inserted>>

\* lines 131-136: the test of "while queue" and queue.popleft(); with the
\* queue empty _items returns and _compute_first_follow starts (line 157)
ItemsPop ==
  /\ build.phase = "items" /\ build.syms = << >>
  /\ build' =
       IF build.st.queue = << >>
       THEN [build EXCEPT !.phase = "first", !.I = NoItemSet,
                          !.FIRST = FirstInit(Parser(build.o))]
       ELSE [build EXCEPT !.I = Head(build.st.queue),
                          !.st.queue = Tail(@),
                          !.syms = IterSymbols(Parser(build.o),
                                               SymsAfterDot(Head(build.st.queue)), build.o)]
  /\ UNCHANGED <<tokens, ord, pc, terms, stack, ip, result, error, inserted>>

\* lines 137-140 and 114-120: _goto(I, X) for the next X, up to its call of
\* _closure
ItemsGoto ==
  /\ build.phase = "items" /\ build.syms # << >>
  /\ LET moved == {<<it[1], it[2], it[3] + 1>> :
                     it \in {j \in build.I :
                               j[3] < Len(j[2]) /\ j[2][j[3] + 1] = Head(build.syms)}}
     IN  build' = IF moved = {}
                  THEN [build EXCEPT !.syms = Tail(@)]
                  ELSE [build EXCEPT !.phase = "closure", !.closure = moved]
  /\ UNCHANGED <<tokens, ord, pc, terms, stack, ip, result, error, inserted>>

\* the FIRST loop left after its first pass, whether or not a set changed
FirstStep_OnePass ==
  /\ build.phase = "first"
  /\ IF build.k < NumProds(Parser(build.o))
     THEN \E after \in {FirstUpdate(Parser(build.o), build.FIRST,
                                    IF build.visit = "reversed"
                                       \/ (build.visit = "alternate" /\ build.flip = 1)
                                    THEN NumProds(Parser(build.o)) - build.k
                                    ELSE build.k + 1)} :
            build' = [build EXCEPT !.FIRST = after, !.k = @ + 1,
                                   !.changed = @ \/ after # build.FIRST]
     ELSE build' = [build EXCEPT !.phase = "follow", !.k = 0, !.flip = 0,
                                 !.FOLLOW = FollowInit(Parser(build.o))]
  /\ UNCHANGED <<tokens, ord, pc, terms, stack, ip, result, error, inserted>>

\* the FIRST loop (lines 183-195): the body of "for lhs, rhs in
\* self.productions" for the next production or, the pass over, the test
\* of "while changed"; the loop left, FOLLOW is set (lines 198-200)
FirstStep ==
  /\ build.phase = "first"
  /\ IF build.k < NumProds(Parser(build.o))
     THEN \E after \in {FirstUpdate(Parser(build.o), build.FIRST,
                                    IF build.visit = "reversed"
                                       \/ (build.visit = "alternate" /\ build.flip = 1)
                                    THEN NumProds(Parser(build.o)) - build.k
                                    ELSE build.k + 1)} :
            build' = [build EXCEPT !.FIRST = after, !.k = @ + 1,
                                   !.changed = @ \/ after # build.FIRST]
     ELSE build' = IF build.changed
                   THEN [build EXCEPT !.k = 0, !.changed = FALSE, !.flip = 1 - @]
                   ELSE [build EXCEPT !.phase = "follow", !.k = 0, !.flip = 0,
                                      !.FOLLOW = FollowInit(Parser(build.o))]
  /\ UNCHANGED <<tokens, ord, pc, terms, stack, ip, result, error, inserted>>

\* the FOLLOW loop with "changed = True" at every position visited, whether
\* or not FOLLOW[B] grew
FollowStep_AlwaysChanged ==
  /\ build.phase = "follow"
  /\ LET self == [Parser(build.o) EXCEPT !.FIRST = build.FIRST]
         p    == IF build.visit = "reversed"
                    \/ (build.visit = "alternate" /\ build.flip = 1)
                 THEN NumProds(self) - build.k ELSE build.k + 1
     IN  IF build.k < NumProds(self)
         THEN IF build.i < Len(self.productions[p].rhs)
              THEN \E after \in {FollowUpdate(self, build.FOLLOW, p, build.i + 1)} :
                     build' = [build EXCEPT !.FOLLOW = after, !.i = @ + 1,
                                            !.changed = TRUE]
              ELSE build' = [build EXCEPT !.k = @ + 1, !.i = 0]
         ELSE build' = IF build.changed
                       THEN [build EXCEPT !.k = 0, !.changed = FALSE, !.flip = 1 - @]
                       ELSE [build EXCEPT !.phase = "built", !.k = 0, !.flip = 0]
  /\ UNCHANGED <<tokens, ord, pc, terms, stack, ip, result, error, inserted>>

\* the FOLLOW loop (lines 201-233): the body of "for i, B in
\* enumerate(rhs_list)" for the next position of the production at hand,
\* the next production or, the pass over, the test of "while changed"
FollowStep ==
  /\ build.phase = "follow"
  /\ LET self == [Parser(build.o) EXCEPT !.FIRST = build.FIRST]
         p    == IF build.visit = "reversed"
                    \/ (build.visit = "alternate" /\ build.flip = 1)
                 THEN NumProds(self) - build.k ELSE build.k + 1
     IN  IF build.k < NumProds(self)
         THEN IF build.i < Len(self.productions[p].rhs)
              THEN \E after \in {FollowUpdate(self, build.FOLLOW, p, build.i + 1)} :
                     build' = [build EXCEPT !.FOLLOW = after, !.i = @ + 1,
                                            !.changed = @ \/ after # build.FOLLOW]
              ELSE build' = [build EXCEPT !.k = @ + 1, !.i = 0]
         ELSE build' = IF build.changed
                       THEN [build EXCEPT !.k = 0, !.changed = FALSE, !.flip = 1 - @]
                       ELSE [build EXCEPT !.phase = "built", !.k = 0, !.flip = 0]
  /\ UNCHANGED <<tokens, ord, pc, terms, stack, ip, result, error, inserted>>

InitConstruct ==
  /\ \E o \in IterOrders, visit \in {"list", "reversed", "alternate"} :
       build = [phase |-> "closure", o |-> o, visit |-> visit, flip |-> 0,
                closure |-> {<<start_symbol, Parser(o).productions[1].rhs, 0>>},
                st |-> [C |-> << >>, queue |-> << >>, transitions |-> EmptyDict],
                I |-> NoItemSet, syms |-> << >>,
                FIRST |-> EmptyDict, FOLLOW |-> EmptyDict,
                k |-> 0, i |-> 0, changed |-> FALSE]
  /\ tokens = [r \in Runs |-> << >>]
  /\ ord = [r \in Runs |-> build.o]
  /\ pc = [r \in Runs |-> "idle"]
  /\ terms = [r \in Runs |-> << >>]
  /\ stack = [r \in Runs |-> << >>]
  /\ ip = [r \in Runs |-> 0]
  /\ result = [r \in Runs |-> "none"]
  /\ error = [r \in Runs |-> NoError]
  /\ inserted = {}

NextConstruct == ClosurePass \/ ItemsPop \/ ItemsGoto \/ FirstStep \/ FollowStep

\* the construction is sequential code: a loop that can make an iteration
\* makes it
SpecConstruct == InitConstruct /\ [][NextConstruct]_vars /\ WF_vars(NextConstruct)

(***************************************************************************)
(* C22  Parser construction terminates.  For the built-in grammar every    *)
(* closure loop, the exploration of the item sets (the queue empties) and  *)
(* the FIRST and FOLLOW loops end after finitely many iterations: the      *)
(* construction reaches its end, with the states, transitions, FIRST and   *)
(* FOLLOW of the parser.                                                   *)
(***************************************************************************)
C22_ConstructionTerminates ==
  <>(/\ build.phase = "built"
     /\ build.st.queue = << >>
     /\ build.st.C = Parser(build.o).states
     /\ build.st.transitions = Parser(build.o).transitions)

\* the construction has ended in the order of the code: the queue is
\* empty, 95 item sets were found and FOLLOW is computed
C22_Witness ==
  /\ build.phase = "built" /\ build.visit = "list"
  /\ build.st.queue = << >> /\ Len(build.st.C) = 95
  /\ build.FOLLOW["program"] = {EndMarker}

(***************************************************************************)
(* C23  FIRST and FOLLOW are the classical sets.  For the built-in         *)
(* grammar, at the end of _compute_first_follow:                           *)
(*   FIRST(A) holds the terminal a exactly when A derives a string that    *)
(*   begins with a, and the empty marker exactly when A derives the empty  *)
(*   string (the least solution of the FIRST equations);                   *)
(*   FOLLOW is the least solution of: '$' is in FOLLOW(start symbol); for  *)
(*   each occurrence A -> alpha B beta, FIRST(beta) without the empty      *)
(*   marker is in FOLLOW(B), and FOLLOW(A) is in FOLLOW(B) when beta is    *)
(*   empty or nullable.  The least solution is the union of the direct     *)
(*   followers of the nonterminals B inherits from.                        *)
(***************************************************************************)
C23_FirstFollowClassical ==
  (build.phase = "built" /\ build.visit = "list") =>
    LET G           == Parser(build.o).productions
        NT          == Parser(build.o).nonterminals
        Nullable(X) == X \in NT /\ 0 \in EndsSym(G, << >>, X, 0)
        First(X)    == IF X \in NT
                       THEN {a \in Parser(build.o).terminals : PrefixSym(G, <<a>>, X, 0)}
                       ELSE {X}
        \* FIRST(seq) without the empty marker
        FirstSeq(seq) ==
          UNION {First(seq[j]) :
                   j \in {m \in DOMAIN seq : \A n \in 1..(m - 1) : Nullable(seq[n])}}
        \* the occurrences <<p, j>> of B in the right-hand sides
        Occurs(B) ==
          UNION {{<<p, j>> : j \in {m \in DOMAIN G[p].rhs : G[p].rhs[m] = B}} : p \in DOMAIN G}
        Direct(B) ==
          (IF B = start_symbol THEN {EndMarker} ELSE {}) \cup
          UNION {FirstSeq(Drop(G[pj[1]].rhs, pj[2])) : pj \in Occurs(B)}
        Inherits(B) ==
          {G[pj[1]].lhs :
             pj \in {q \in Occurs(B) :
                       \A n \in (q[2] + 1)..Len(G[q[1]].rhs) : Nullable(G[q[1]].rhs[n])}}
        RECURSIVE InheritReach(_)
        InheritReach(nts) ==
          IF UNION {Inherits(B) : B \in nts} \subseteq nts THEN nts
          ELSE InheritReach(nts \cup UNION {Inherits(B) : B \in nts})
    IN  /\ build.FIRST =
             [A \in NT |-> First(A) \cup (IF Nullable(A) THEN {Epsilon} ELSE {})]
        /\ build.FOLLOW =
             [B \in NT |-> UNION {Direct(A) : A \in InheritReach({B})}]

\* the sets are complete in the order of the code: statement is nullable,
\* and FOLLOW(expression) holds what it inherits from statement
C23_Witness ==
  /\ build.phase = "built" /\ build.visit = "list"
  /\ Epsilon \in build.FIRST["statement"]
  /\ {";", ".", "END"} \subseteq build.FOLLOW["expression"]

(***************************************************************************)
(* C24  Order independence of the fixed points.  Whatever the order in     *)
(* which the passes of the FIRST loop and of the FOLLOW loop visit the     *)
(* productions (the list order, its reverse, or the two in turn), the sets *)
(* at convergence are those the parser has, computed in the list order.    *)
(***************************************************************************)
C24_OrderIndependent ==
  build.phase = "built" =>
    /\ build.FIRST = Parser(build.o).FIRST
    /\ build.FOLLOW = Parser(build.o).FOLLOW

\* the loops have converged with the productions visited in another order
\* than the list order
C24_Witness ==
  /\ build.phase = "built" /\ build.visit # "list"
  /\ build.FIRST["block"] # {} /\ build.FOLLOW["block"] # {}

=============================================================================
